---- MODULE Spec2Model ----
(***************************************************************************)
(* Rate aggregation of onemit-fx-compass.                                  *)
(*                                                                         *)
(* Part 1: fetchBybitRateWithRetry (src/src/services/bybit.ts), the        *)
(*         bounded retry loop around getBybitP2PRate                       *)
(*         (src/src/services/bybit/bybit-api.ts).                          *)
(* Part 2: loadVertoFxRates (src/unnamed/part_001) on top of the inner     *)
(*         fetcher fetchVertoFXRates (services/api.ts, the second file     *)
(*         held in src/src/components/ParallaxBackground.tsx), the         *)
(*         expiring cache and the attempt throttle.                        *)
(* Part 3: fetchFxRates (services/api.ts) on top of fetchExchangeRates     *)
(*         (src/src/services/currency-rates/api.ts), the expiring cache    *)
(*         and the timestamp functions of the throttle on their own.       *)
(* Part 4: the pricing functions (src/unnamed/part_005).                   *)
(* Part 5: the hook useCurrencyData (src/unnamed/part_000) with the        *)
(*         values each of its functions captured at the render it was      *)
(*         created in, and CurrencyInput (src/unnamed/part_002).           *)
(* Part 6: the hook useRateRefresher (src/unnamed/part_003): its interval  *)
(*         timer and its two refresh paths.                                *)
(***************************************************************************)
EXTENDS Integers, Sequences, FiniteSets, TLC

(***************************************************************************)
(* Bounds of the model.                                                    *)
(***************************************************************************)
\* largest maxRetries argument tried
MaxRetriesArg == 3

\* most fetches in progress at once: loadVertoFxRates calls awaiting their
\* race, background refreshes scheduled or running, and fetchVertoFXRates
\* calls whose awaiter has timed out
MaxActive == 2
\* clock advances allowed in a behaviour
MaxTicks == 2
\* longest text tried as the stored timestamp
MaxTextLen == 3
\* clock advances allowed while fetchFxRates is exercised
MaxFxTicks == 2
\* calls of the functions of useCurrencyData made in a behaviour
MaxHookCalls == 2
\* runs of the effect of useRateRefresher in a behaviour
MaxEffectRuns == 3

VARIABLES
    \* ---- fetchBybitRateWithRetry ----
    rpc,          \* position of the one fetchBybitRateWithRetry call
    maxRetries,   \* its maxRetries argument
    attempt,      \* the loop variable
    lastError,    \* let lastError
    pendingRate,  \* const rate, while saveBybitRate is awaited
    result,       \* the value the call resolved with
    calls,        \* getBybitP2PRate invocations made by this call
    inFlight,     \* getBybitP2PRate invocations not yet settled
    waits,        \* inter-attempt delays started by this call
    saves,        \* saveBybitRate invocations made by this call
    saveOutcome,  \* how the awaited saveBybitRate ended (observation only)
    abortTimer,   \* the setTimeout of the last getBybitP2PRate call
    outcomes,     \* per attempt: the response seen and what the loop made of it
    \* ---- loadVertoFxRates and what it stands on ----
    now,                         \* Date.now()
    ticks,                       \* clock advances so far
    lastSuccessfulVertoFxRates,  \* part_001:19
    lastApiAttemptTimestamp,     \* part_001:20
    lastApiSuccess,              \* part_001:21
    storage,                     \* localStorage item 'lastVertoFxApiAttempt'
    cache,                       \* cacheWithExpiration: key -> entry
    cachedVertoFxRates,          \* services/api.ts module variable
    displayed,                   \* last value handed to setVertoFxRates
    loads,                       \* calls awaiting their race, counted by arguments
    bgScheduled,                 \* background refreshes whose 100 ms timer runs
    bgFetching,                  \* background refreshes awaiting their race
    orphans,                     \* inner fetches whose awaiter has gone
    ev,                          \* what the last step did (observation only)
    \* ---- fetchFxRates and fetchExchangeRates ----
    fxClock,      \* Date.now()
    fxTicks,      \* clock advances so far
    fxCache,      \* the entries 'fx_rates_cache' and 'currency_rates_...'
    fxCall,       \* the function whose request is in flight, "idle" if none
    fxOut,        \* how the last call ended (observation only)
    \* ---- the pricing functions ----
    pricingArgs,  \* the arguments tried
    pricingOut,   \* the function applied and what it returned
    \* ---- useCurrencyData ----
    usdtNgnRate,          \* part_000:49
    fxRates,              \* part_000:50
    costPrices,           \* part_000:52
    previousCostPrices,   \* part_000:53
    lastUpdated,          \* part_000:54, 0 for null, else the call that set it
    isLoading,            \* part_000:55
    hookCalls,            \* loadAllData and updateUsdtRate calls in progress
    hookStarted,          \* calls of the hook's functions made so far
    hookEv,               \* what the last step did (observation only)
    \* ---- CurrencyInput ----
    inputValue,   \* part_002:25
    isError,      \* part_002:27
    isSaved,      \* part_002:26
    inputEv,      \* what the last handler did (observation only)
    \* ---- useRateRefresher ----
    refresherMounted,     \* "no" before the mount, "yes", "gone" after unmount
    intervals,            \* ids of the interval timers that are active
    autoRefreshTimerRef,  \* part_003:25, 0 for null
    effectRuns,           \* runs of the effect so far (the last timer id)
    refreshPc,            \* position of handleRefresh and of the timer callback
    closureProps,         \* the props each of the two running functions reads
    refresherEv           \* what the last step did (observation only)

retryVars == <<rpc, maxRetries, attempt, lastError, pendingRate, result,
               calls, inFlight, waits, saves, saveOutcome, abortTimer,
               outcomes>>

vertoVars == <<now, ticks, lastSuccessfulVertoFxRates, lastApiAttemptTimestamp,
               lastApiSuccess, storage, cache, cachedVertoFxRates, displayed,
               loads, bgScheduled, bgFetching, orphans, ev>>

fxVars == <<fxClock, fxTicks, fxCache, fxCall, fxOut>>

pricingVars == <<pricingArgs, pricingOut>>

hookVars == <<usdtNgnRate, fxRates, costPrices, previousCostPrices,
              lastUpdated, isLoading, hookCalls, hookStarted, hookEv>>

inputVars == <<inputValue, isError, isSaved, inputEv>>

refresherVars == <<refresherMounted, intervals, autoRefreshTimerRef,
                   effectRuns, refreshPc, closureProps,
                   refresherEv>>

appVars == <<pricingVars, hookVars, inputVars, refresherVars>>

vars == <<retryVars, vertoVars, fxVars, appVars>>

(***************************************************************************)
(* PART 1 - fetchBybitRateWithRetry                                        *)
(***************************************************************************)
NoError == "undefined"

\* What supabase.functions.invoke('bybit-proxy') can hand back: an edge
\* function error, a data object (cast unchecked to BybitP2PResponse), or a
\* thrown transport error carrying an axios-style code.
DataShapes ==
    [ success      : BOOLEAN,
      hasSummary   : {TRUE},
      hasPriceRange: {TRUE},
      total_traders: {0, 3},
      median       : {-1, 0, 1600, 1650},
      error        : {NoError} ]
    \cup
    { [success |-> TRUE, hasSummary |-> TRUE, hasPriceRange |-> FALSE,
       total_traders |-> 3, median |-> 0, error |-> NoError],
      [success |-> TRUE, hasSummary |-> FALSE, hasPriceRange |-> FALSE,
       total_traders |-> 0, median |-> 0, error |-> NoError],
      [success |-> FALSE, hasSummary |-> FALSE, hasPriceRange |-> FALSE,
       total_traders |-> 0, median |-> 0,
       error |-> "API responded with status: 502"] }

InvokeOutcomes ==
    { [kind |-> "edgeError", code |-> "", data |-> d] :
        d \in {CHOOSE x \in DataShapes : TRUE} }
    \cup { [kind |-> "data", code |-> "", data |-> d] : d \in DataShapes }
    \cup { [kind |-> "throw", code |-> c, data |-> d] :
             c \in {"ECONNABORTED", "ERR_NETWORK"},
             d \in {CHOOSE x \in DataShapes : TRUE} }

\* The failure object getBybitP2PRate builds in three places.
FailedResponse(msg) ==
    [ success |-> FALSE, hasSummary |-> TRUE, hasPriceRange |-> TRUE,
      total_traders |-> 0, median |-> 0, error |-> msg ]

\* getBybitP2PRate: never rejects, every failure becomes success = false.
GetBybitP2PRate(o) ==
    CASE o.kind = "edgeError" ->
           FailedResponse("Edge function error: Unknown error")
      [] o.kind = "throw" ->
           FailedResponse(IF o.code = "ECONNABORTED"
                          THEN "Request timed out"
                          ELSE "Network error - check your internet connection")
      [] OTHER ->
           IF o.data.success /\ o.data.hasSummary
           THEN o.data
           ELSE FailedResponse(IF o.data.error # NoError
                               THEN o.data.error
                               ELSE "Invalid response from Edge Function")

\* ---- the client-side timeout of getBybitP2PRate, bybit-api.ts:24-28 ----
TIMEOUT_MS == 25000
SLOW_TIMEOUT_MS == 35000

\* const timeoutDuration = isSlowConnection ? 35000 : 25000
TimeoutDuration(isSlowConnection) ==
    IF isSlowConnection THEN SLOW_TIMEOUT_MS ELSE TIMEOUT_MS

TimerOff == [status |-> "off", ms |-> 0]

\* setTimeout(() => abortController.abort(), timeoutDuration)
ArmTimer(isSlowConnection) ==
    [status |-> "armed", ms |-> TimeoutDuration(isSlowConnection)]

\* The timer after invoke has settled with o: clearTimeout(timeoutId) at
\* line 50 is reached unless invoke threw.
TimerAfterInvoke(t, o) ==
    IF o.kind # "throw" /\ t.status = "armed" THEN TimerOff ELSE t

\* for (let attempt = 1; attempt <= maxRetries; attempt++)
LoopConditionOffByOne(a, n) == a < n
LoopCondition(a, n) == a <= n

\* if (attempt < maxRetries) await delay
ShouldWaitAlways(a, n) == a <= n
ShouldWait(a, n) == a < n

\* response && response.success && response.market_summary.total_traders > 0
HasTraders(resp) == resp.success /\ resp.total_traders > 0

\* rate && rate > 0
RateIsValidNonZero(rate) == rate # 0
RateIsValid(rate) == rate # 0 /\ rate > 0

\* Reading response.market_summary.price_range.median throws a TypeError when
\* the object carries no price_range.
ReadThrows(resp) == HasTraders(resp) /\ ~resp.hasPriceRange

\* The attempt yields a rate to return.
IsUsable(resp) ==
    HasTraders(resp) /\ resp.hasPriceRange /\ RateIsValid(resp.median)

\* The message the attempt leaves in lastError when it yields no rate.
AttemptError(resp) ==
    IF ReadThrows(resp)
    THEN "Cannot read properties of undefined (reading 'median')"
    ELSE IF HasTraders(resp)
         THEN "Received invalid rate value (zero or negative)"
         ELSE IF resp.error # NoError
              THEN resp.error
              ELSE "No traders found or empty response"

\* lastError = ... in the failure branches
KeepFirstError(prev, msg) == IF prev = "" THEN msg ELSE prev
NextLastError(prev, msg) == msg

NoRate == [isNull |-> TRUE, rate |-> 0, error |-> ""]

RetryInit ==
    /\ rpc = "idle"
    /\ maxRetries = 0
    /\ attempt = 0
    /\ lastError = ""
    /\ pendingRate = 0
    /\ result = NoRate
    /\ calls = 0
    /\ inFlight = 0
    /\ waits = 0
    /\ saves = 0
    /\ saveOutcome = "none"
    /\ abortTimer = TimerOff
    /\ outcomes = <<>>

\* A caller invokes fetchBybitRateWithRetry(n, delayMs).
RetryStart(n) ==
    /\ rpc \in {"idle", "done"}
    /\ rpc' = "loop"
    /\ maxRetries' = n
    /\ attempt' = 1
    /\ lastError' = ""
    /\ pendingRate' = 0
    /\ result' = NoRate
    /\ calls' = 0
    /\ inFlight' = 0
    /\ waits' = 0
    /\ saves' = 0
    /\ saveOutcome' = "none"
    /\ abortTimer' = TimerOff
    /\ outcomes' = <<>>
    /\ UNCHANGED <<vertoVars, fxVars, appVars>>

\* Loop test true: the body starts and getBybitP2PRate is invoked.
RetryInvoke ==
    /\ rpc = "loop"
    /\ LoopCondition(attempt, maxRetries)
    /\ rpc' = "calling"
    /\ calls' = calls + 1
    /\ inFlight' = inFlight + 1
    /\ UNCHANGED <<maxRetries, attempt, lastError, pendingRate, result,
                   waits, saves, outcomes>>
    /\ \E isSlowConnection \in BOOLEAN :
         abortTimer' = ArmTimer(isSlowConnection)
    /\ UNCHANGED saveOutcome
    /\ UNCHANGED <<vertoVars, fxVars, appVars>>

\* Loop test false: return { rate: null, error: lastError }.
RetryExhausted ==
    /\ rpc = "loop"
    /\ ~LoopCondition(attempt, maxRetries)
    /\ rpc' = "done"
    /\ result' = [isNull |-> TRUE, rate |-> 0, error |-> lastError]
    /\ UNCHANGED <<maxRetries, attempt, lastError, pendingRate, calls,
                   inFlight, waits, saves, outcomes>>
    /\ UNCHANGED <<saveOutcome, abortTimer>>
    /\ UNCHANGED <<vertoVars, fxVars, appVars>>

\* getBybitP2PRate settles with a usable response: saveBybitRate is invoked.
RetryUsable(o) ==
    LET resp == GetBybitP2PRate(o) IN
    /\ rpc = "calling"
    /\ IsUsable(resp)
    /\ inFlight' = inFlight - 1
    /\ pendingRate' = resp.median
    /\ saves' = saves + 1
    /\ rpc' = "saving"
    /\ outcomes' = Append(outcomes, [resp |-> resp, ok |-> TRUE, err |-> ""])
    /\ UNCHANGED <<maxRetries, attempt, lastError, result, calls, waits>>
    /\ abortTimer' = TimerAfterInvoke(abortTimer, o)
    /\ UNCHANGED saveOutcome
    /\ UNCHANGED <<vertoVars, fxVars, appVars>>

\* getBybitP2PRate settles with no usable rate (or reading the rate throws):
\* lastError is set, then either the delay starts or the loop steps.
RetryFailed(o) ==
    LET resp == GetBybitP2PRate(o)
        msg  == AttemptError(resp)
    IN
    /\ rpc = "calling"
    /\ ~IsUsable(resp)
    /\ inFlight' = inFlight - 1
    /\ lastError' = NextLastError(lastError, msg)
    /\ outcomes' = Append(outcomes, [resp |-> resp, ok |-> FALSE, err |-> msg])
    /\ IF ShouldWait(attempt, maxRetries)
       THEN /\ rpc' = "waiting"
            /\ waits' = waits + 1
            /\ attempt' = attempt
       ELSE /\ rpc' = "loop"
            /\ waits' = waits
            /\ attempt' = attempt + 1
    /\ UNCHANGED <<maxRetries, pendingRate, result, calls, saves>>
    /\ abortTimer' = TimerAfterInvoke(abortTimer, o)
    /\ UNCHANGED saveOutcome
    /\ UNCHANGED <<vertoVars, fxVars, appVars>>

\* The delayMs timer fires: attempt++ and back to the loop test.
RetryDelayElapsed ==
    /\ rpc = "waiting"
    /\ rpc' = "loop"
    /\ attempt' = attempt + 1
    /\ UNCHANGED <<maxRetries, lastError, pendingRate, result, calls,
                   inFlight, waits, saves, outcomes>>
    /\ UNCHANGED <<saveOutcome, abortTimer>>
    /\ UNCHANGED <<vertoVars, fxVars, appVars>>

\* saveBybitRate settles (true or false, it never rejects): return { rate }.
RetrySaved(saved) ==
    /\ rpc = "saving"
    /\ rpc' = "done"
    /\ result' = [isNull |-> FALSE, rate |-> pendingRate, error |-> ""]
    /\ UNCHANGED abortTimer
    /\ saveOutcome' = IF saved THEN "saved" ELSE "failed"
    /\ UNCHANGED <<maxRetries, attempt, lastError, pendingRate, calls,
                   inFlight, waits, saves, outcomes>>
    /\ UNCHANGED <<vertoVars, fxVars, appVars>>

\* The timer of getBybitP2PRate fires: abortController.abort().  The
\* controller's signal was handed to nobody (invoke at bybit-api.ts:35-48
\* is called without it), so the request goes on and nothing else changes.
AbortTimerFires ==
    /\ abortTimer.status = "armed"
    /\ abortTimer' = [abortTimer EXCEPT !.status = "fired"]
    /\ UNCHANGED <<rpc, maxRetries, attempt, lastError, pendingRate, result,
                   calls, inFlight, waits, saves, saveOutcome, outcomes>>
    /\ UNCHANGED <<vertoVars, fxVars, appVars>>

RetryNext ==
    \/ \E n \in 0..MaxRetriesArg : RetryStart(n)
    \/ RetryInvoke
    \/ RetryExhausted
    \/ \E o \in InvokeOutcomes : RetryUsable(o)
    \/ \E o \in InvokeOutcomes : RetryFailed(o)
    \/ RetryDelayElapsed
    \/ \E saved \in BOOLEAN : RetrySaved(saved)
    \/ AbortTimerFires


(***************************************************************************)
(* PART 2 - loadVertoFxRates                                               *)
(***************************************************************************)

\* ---- program constants (milliseconds) ----
COOLDOWN_MS == 30000
BYPASS_OFFSET_MS == 60000
MOBILE_TIMEOUT_MS == 3000
DESKTOP_TIMEOUT_MS == 10000
BACKGROUND_TIMEOUT_MS == 3000
MOBILE_CACHE_TTL_MS == 600000
DESKTOP_CACHE_TTL_MS == 300000
BACKGROUND_CACHE_TTL_MS == 600000
INNER_TIMEOUT_MS == 5000
INNER_CACHE_TTL_MS == 300000

\* The clock starts late enough that Date.now() - 60000 is positive, as it
\* is for any real Date.now(); it advances in steps of these sizes.
StartTime == 3 * COOLDOWN_MS
TickSizes == {COOLDOWN_MS, DESKTOP_CACHE_TTL_MS}

\* The arguments of a loadVertoFxRates call that matter once it awaits.
LoadArgs == [isMobile : BOOLEAN, force : BOOLEAN]

\* ---- rate sets: VertoFXRates = Record<string, {buy, sell}> ----
Currencies == {"USD", "EUR", "GBP", "CAD"}

DEFAULT_VERTOFX_RATES ==
    [ USD |-> [buy |-> 1635, sell |-> 1600],
      EUR |-> [buy |-> 1870, sell |-> 1805],
      GBP |-> [buy |-> 2150, sell |-> 2080],
      CAD |-> [buy |-> 1190, sell |-> 1140] ]

\* The object {} (no keys).
EmptyRates == [c \in {} |-> [buy |-> 0, sell |-> 0]]

\* ---- what getAllNgnRates can resolve with ----
\* Record<"NGN-XXX" | "XXX-NGN", {rate}>. A NGN-XXX rate is the fraction
\* num/den (NGN 1 buys num/den of XXX), so that 1 / rate = den / num; the
\* payloads below carry fractions whose reciprocal is a whole number. A
\* XXX-NGN rate is a whole number of NGN.
Absent == [present |-> FALSE, num |-> 0, den |-> 1]
Frac(n, d) == [present |-> TRUE, num |-> n, den |-> d]

LivePayload(delta) ==
    [ inv |-> [c \in Currencies |->
                 Frac(1, DEFAULT_VERTOFX_RATES[c].buy + delta)],
      dir |-> [c \in Currencies |->
                 Frac(DEFAULT_VERTOFX_RATES[c].sell + delta, 1)] ]

ZeroPayload ==
    [ inv |-> [c \in Currencies |-> Frac(0, 1)],
      dir |-> [c \in Currencies |-> Frac(0, 1)] ]

\* the object {}: no pair is listed
EmptyPayload ==
    [ inv |-> [c \in Currencies |-> Absent],
      dir |-> [c \in Currencies |-> Absent] ]

Payloads ==
    {LivePayload(10), LivePayload(25), ZeroPayload}

\* How the awaited upstream call of one fetchVertoFXRates ends: the promise
\* resolves, it rejects, or the fetcher's own 5 s timer rejects first.
UpstreamEvents ==
    { [kind |-> "resolve", payload |-> p] : p \in Payloads }
    \cup { [kind |-> "reject", payload |-> EmptyPayload],
           [kind |-> "timeout", payload |-> EmptyPayload] }

\* formattedRates, as the loop over USD, EUR, GBP, CAD fills it
FormatRates(p) ==
    [ c \in Currencies |->
        [ buy  |-> IF p.inv[c].present /\ p.inv[c].num > 0
                   THEN p.inv[c].den \div p.inv[c].num
                   ELSE 0,
          sell |-> IF p.dir[c].present
                   THEN p.dir[c].num \div p.dir[c].den
                   ELSE 0 ] ]

\* Object.values(rates).some(rate => rate.buy > 0 || rate.sell > 0)
SomePositiveOrZero(r) == \E c \in DOMAIN r : r[c].buy >= 0 \/ r[c].sell >= 0
SomePositive(r) == \E c \in DOMAIN r : r[c].buy > 0 \/ r[c].sell > 0

\* vertoRates && Object.keys(vertoRates).length > 0 && some(...)
HasValidRates(r) == DOMAIN r # {} /\ SomePositive(r)

\* ---- number <-> string, as localStorage stores the timestamp ----
DigitChars == <<"0", "1", "2", "3", "4", "5", "6", "7", "8", "9">>

\* the value of each digit character
DigitValues ==
    [ch \in {DigitChars[d] : d \in 1..10} |->
        (CHOOSE d \in 1..10 : DigitChars[d] = ch) - 1]

IsDigit(ch) == ch \in DOMAIN DigitValues
DigitValue(ch) == DigitValues[ch]

\* Number.prototype.toString() of a non-negative integer
RECURSIVE NumberToString(_)
NumberToString(n) ==
    IF n < 10
    THEN <<DigitChars[n + 1]>>
    ELSE Append(NumberToString(n \div 10), DigitChars[(n % 10) + 1])

\* parseInt(text, 10): the value of the longest prefix of digits, NaN when
\* there is none.
RECURSIVE DigitPrefixValue(_, _)
DigitPrefixValue(text, acc) ==
    IF text = <<>> \/ ~IsDigit(Head(text))
    THEN acc
    ELSE DigitPrefixValue(Tail(text), acc * 10 + DigitValue(Head(text)))

ParseInt(text) ==
    IF text = <<>> \/ ~IsDigit(Head(text))
    THEN [isNaN |-> TRUE, value |-> 0]
    ELSE [isNaN |-> FALSE, value |-> DigitPrefixValue(text, 0)]

NoItem == [present |-> FALSE, text |-> <<>>]
Item(text) == [present |-> TRUE, text |-> text]

Max(a, b) == IF a >= b THEN a ELSE b

\* ---- cacheWithExpiration (../cacheUtils) ----
OUTER_KEY == "vertoRates"
INNER_KEY == "formatted_vertofx_rates"
CacheKeys == {OUTER_KEY, INNER_KEY}

NoEntry == [present |-> FALSE, value |-> EmptyRates, expiresAt |-> 0]

\* get(key) finds a value: an entry exists and has not expired
CacheFreshAtExpiry(c, k, t) == c[k].present /\ t <= c[k].expiresAt
CacheFresh(c, k, t) == c[k].present /\ t < c[k].expiresAt
CacheValue(c, k) == c[k].value
\* the cache after get(key): an expired entry is dropped on read
CacheAfterGet(c, k, t) ==
    IF c[k].present /\ ~(t < c[k].expiresAt)
    THEN [c EXCEPT ![k] = NoEntry]
    ELSE c
\* set(key, value, ttlMs)
CacheSet(c, k, v, ttl, t) ==
    [c EXCEPT ![k] = [present |-> TRUE, value |-> v, expiresAt |-> t + ttl]]

\* ---- the module state one synchronous stretch of code works on ----
\* The stretch reads and writes these in program order; the action that
\* models it commits the final value. writes and toasts list what the
\* stretch passed to setLastApiAttemptTimestamp and to toast.
Cur ==
    [ lastSuccessfulVertoFxRates |-> lastSuccessfulVertoFxRates,
      lastApiAttemptTimestamp    |-> lastApiAttemptTimestamp,
      lastApiSuccess             |-> lastApiSuccess,
      storage                    |-> storage,
      cache                      |-> cache,
      cachedVertoFxRates         |-> cachedVertoFxRates,
      displayed                  |-> displayed,
      writes                     |-> <<>>,
      toasts                     |-> <<>> ]

Commit(g) ==
    /\ lastSuccessfulVertoFxRates' = g.lastSuccessfulVertoFxRates
    /\ lastApiAttemptTimestamp' = g.lastApiAttemptTimestamp
    /\ lastApiSuccess' = g.lastApiSuccess
    /\ storage' = g.storage
    /\ cache' = g.cache
    /\ cachedVertoFxRates' = g.cachedVertoFxRates
    /\ displayed' = g.displayed

SetVertoFxRates(g, v) == [g EXCEPT !.displayed = v]

Toast(g, kind) == [g EXCEPT !.toasts = Append(@, kind)]

\* getLastApiAttemptTimestamp: the value it returns
GetLastApiAttemptTimestampMemoryOnly(g) == g.lastApiAttemptTimestamp
GetLastApiAttemptTimestampStoredWins(g) ==
    IF g.storage.present /\ g.storage.text # <<>>
       /\ ~ParseInt(g.storage.text).isNaN
    THEN ParseInt(g.storage.text).value
    ELSE g.lastApiAttemptTimestamp
GetLastApiAttemptTimestamp(g) ==
    IF g.storage.present /\ g.storage.text # <<>>
       /\ ~ParseInt(g.storage.text).isNaN
    THEN Max(g.lastApiAttemptTimestamp, ParseInt(g.storage.text).value)
    ELSE g.lastApiAttemptTimestamp

\* getLastApiAttemptTimestamp: the state it leaves (the in-memory value is
\* raised to the stored one)
AfterGetLastApiAttemptTimestamp(g) ==
    [g EXCEPT !.lastApiAttemptTimestamp = GetLastApiAttemptTimestamp(g)]

SetLastApiAttemptTimestamp(g, ts) ==
    [g EXCEPT !.lastApiAttemptTimestamp = ts,
              !.storage = Item(NumberToString(ts)),
              !.writes = Append(@, ts)]

BypassRateLimitingCooldownToNow(g, t) ==
    SetLastApiAttemptTimestamp(g, t)
BypassRateLimitingCooldown(g, t) ==
    SetLastApiAttemptTimestamp(g, t - BYPASS_OFFSET_MS)

\* forceRefresh || (Date.now() - lastAttemptTime > 30000)
ShouldCallApiOnlyForced(force, t, lastAttemptTime) == force
ShouldCallApiAtBoundary(force, t, lastAttemptTime) ==
    force \/ (t - lastAttemptTime >= COOLDOWN_MS)
ShouldCallApi(force, t, lastAttemptTime) ==
    force \/ (t - lastAttemptTime > COOLDOWN_MS)

\* if (isMobile && Object.keys(lastSuccessfulVertoFxRates).length > 0)
ReadsOuterCacheDesktopOnly(g, isMobile) ==
    ~isMobile /\ DOMAIN g.lastSuccessfulVertoFxRates # {}
ReadsOuterCacheAnyClient(g, isMobile) ==
    DOMAIN g.lastSuccessfulVertoFxRates # {}
ReadsOuterCache(g, isMobile) ==
    isMobile /\ DOMAIN g.lastSuccessfulVertoFxRates # {}

\* const timeout = isMobile ? 3000 : 10000
RaceTimeout(isMobile) ==
    IF isMobile THEN MOBILE_TIMEOUT_MS ELSE DESKTOP_TIMEOUT_MS

\* isMobile ? 600000 : 300000
OuterCacheTtl(isMobile) ==
    IF isMobile THEN MOBILE_CACHE_TTL_MS ELSE DESKTOP_CACHE_TTL_MS

\* ---- fetchVertoFXRates (services/api.ts) ----
\* Its synchronous start: the cache is read; on a hit the promise resolves
\* with the cached value, otherwise getAllNgnRates is called.
InnerCacheHit(g, t) == CacheFresh(g.cache, INNER_KEY, t)
InnerAfterCacheRead(g, t) ==
    [g EXCEPT !.cache = CacheAfterGet(g.cache, INNER_KEY, t)]

\* The rest of fetchVertoFXRates once the race with its 5 s timer is
\* decided: the value the promise resolves with (it never rejects) and the
\* state it leaves. live is TRUE when the value is this call's own valid
\* upstream response.
InnerSettle(g, e, t) ==
    LET formatted == FormatRates(e.payload) IN
    IF e.kind = "resolve"
    THEN IF SomePositive(formatted)
         THEN [ g |-> [g EXCEPT
                         !.cachedVertoFxRates = formatted,
                         !.cache = CacheSet(g.cache, INNER_KEY, formatted,
                                            INNER_CACHE_TTL_MS, t)],
                value |-> formatted,
                live |-> TRUE ]
         ELSE [ g |-> g, value |-> g.cachedVertoFxRates, live |-> FALSE ]
    ELSE LET g1 == InnerAfterCacheRead(g, t) IN
         [ g |-> IF InnerCacheHit(g, t) THEN g1 ELSE Toast(g1, "warning"),
           value |-> g.cachedVertoFxRates,
           live |-> FALSE ]

\* ---- loadVertoFxRates, after the awaited race ----
\* The race resolved with v: lines 131-170.
OuterOnValueKeepLkg(g, v, isMobile, force, t) ==
    IF HasValidRates(v)
    THEN LET g1 == [g EXCEPT !.lastApiSuccess = TRUE]
             g2 == [g1 EXCEPT !.cache = CacheSet(g1.cache, OUTER_KEY, v,
                                                 OuterCacheTtl(isMobile), t)]
             g3 == SetVertoFxRates(g2, v)
             g4 == IF ~g3.lastApiSuccess \/ force
                   THEN Toast(g3, "success") ELSE g3
         IN [ g |-> SetLastApiAttemptTimestamp(g4, t),
              ret |-> v, branch |-> "live" ]
    ELSE LET g1 == [g EXCEPT !.lastApiSuccess = FALSE]
             g2 == Toast(g1, "error")
             g3 == SetVertoFxRates(g2, DEFAULT_VERTOFX_RATES)
         IN [ g |-> SetLastApiAttemptTimestamp(g3, t),
              ret |-> DEFAULT_VERTOFX_RATES, branch |-> "invalid" ]
OuterOnValue(g, v, isMobile, force, t) ==
    IF HasValidRates(v)
    THEN LET g1 == [g EXCEPT !.lastSuccessfulVertoFxRates = v,
                             !.lastApiSuccess = TRUE]
             g2 == [g1 EXCEPT !.cache = CacheSet(g1.cache, OUTER_KEY, v,
                                                 OuterCacheTtl(isMobile), t)]
             g3 == SetVertoFxRates(g2, v)
             \* const isFirstSuccess = !lastApiSuccess, read after the write
             g4 == IF ~g3.lastApiSuccess \/ force
                   THEN Toast(g3, "success") ELSE g3
         IN [ g |-> SetLastApiAttemptTimestamp(g4, t),
              ret |-> v, branch |-> "live" ]
    ELSE LET g1 == [g EXCEPT !.lastApiSuccess = FALSE]
             g2 == Toast(g1, "error")
             g3 == SetVertoFxRates(g2, DEFAULT_VERTOFX_RATES)
         IN [ g |-> SetLastApiAttemptTimestamp(g3, t),
              ret |-> DEFAULT_VERTOFX_RATES, branch |-> "invalid" ]

\* The race rejected (its timer won): the catch block, lines 183-197.
OuterOnErrorEmpty(g, t) ==
    LET g1 == [g EXCEPT !.lastApiSuccess = FALSE]
        g2 == Toast(g1, "error")
        g3 == SetVertoFxRates(g2, EmptyRates)
    IN [ g |-> SetLastApiAttemptTimestamp(g3, t),
         ret |-> EmptyRates, branch |-> "error" ]
OuterOnErrorNoRecord(g, t) ==
    LET g1 == [g EXCEPT !.lastApiSuccess = FALSE]
        g2 == Toast(g1, "error")
        g3 == SetVertoFxRates(g2, DEFAULT_VERTOFX_RATES)
    IN [ g |-> g3, ret |-> DEFAULT_VERTOFX_RATES, branch |-> "error" ]
OuterOnError(g, t) ==
    LET g1 == [g EXCEPT !.lastApiSuccess = FALSE]
        g2 == Toast(g1, "error")
        g3 == SetVertoFxRates(g2, DEFAULT_VERTOFX_RATES)
    IN [ g |-> SetLastApiAttemptTimestamp(g3, t),
         ret |-> DEFAULT_VERTOFX_RATES, branch |-> "error" ]

\* Rate limiting active: lines 171-182.
OuterOnCooldown(g) ==
    IF DOMAIN g.lastSuccessfulVertoFxRates # {}
       /\ g.lastSuccessfulVertoFxRates # DEFAULT_VERTOFX_RATES
    THEN [ g |-> SetVertoFxRates(g, g.lastSuccessfulVertoFxRates),
           ret |-> g.lastSuccessfulVertoFxRates, branch |-> "cooldown" ]
    ELSE [ g |-> SetVertoFxRates(g, DEFAULT_VERTOFX_RATES),
           ret |-> DEFAULT_VERTOFX_RATES, branch |-> "cooldown" ]

\* ---- the detached background refresh, lines 85-109 ----
BackgroundOnValue(g, v, t) ==
    LET g1 == IF DOMAIN v # {}
              THEN LET a == SetVertoFxRates(g, v)
                       b == [a EXCEPT !.lastSuccessfulVertoFxRates = v,
                                      !.lastApiSuccess = TRUE]
                   IN [b EXCEPT !.cache = CacheSet(b.cache, OUTER_KEY, v,
                                            BACKGROUND_CACHE_TTL_MS, t)]
              ELSE [g EXCEPT !.lastApiSuccess = FALSE]
    IN SetLastApiAttemptTimestamp(g1, t)

BackgroundOnError(g, t) ==
    LET g1 == [g EXCEPT !.lastApiSuccess = FALSE]
        g2 == SetVertoFxRates(g1, g1.lastSuccessfulVertoFxRates)
    IN SetLastApiAttemptTimestamp(g2, t)

\* ---- loadVertoFxRates up to its first await, lines 63-130 and 171-182 ----
\* What the synchronous part does on state g at time t: the state it leaves
\* and how it ends. branch "cacheHit" (mobile, cached value returned, a
\* background refresh scheduled), "cooldown", "pending" (getAllNgnRates is
\* awaited) or, when fetchVertoFXRates answers from its own cache, the
\* outcome of lines 131-170.
LoadSync(g, isMobile, force, t) ==
    LET g0 == SetVertoFxRates(g, DEFAULT_VERTOFX_RATES)
        g1 == IF force THEN BypassRateLimitingCooldown(g0, t) ELSE g0
        mobilePath == ReadsOuterCache(g1, isMobile)
        outerHit == mobilePath /\ CacheFresh(g1.cache, OUTER_KEY, t)
        g2 == IF mobilePath
              THEN [g1 EXCEPT !.cache = CacheAfterGet(g1.cache, OUTER_KEY, t)]
              ELSE g1
        lastAttemptTime == GetLastApiAttemptTimestamp(g2)
        g3 == AfterGetLastApiAttemptTimestamp(g2)
        innerHit == InnerCacheHit(g3, t)
        g4 == InnerAfterCacheRead(g3, t)
        base == [ g |-> g2, branch |-> "cacheHit", ret |-> EmptyRates,
                  attempted |-> FALSE, net |-> FALSE, settled |-> 0,
                  throttleChecked |-> FALSE, lastAttemptTime |-> 0,
                  fetched |-> EmptyRates, bgSpawned |-> FALSE ]
    IN
    IF outerHit
    THEN [base EXCEPT
            !.g = SetVertoFxRates(g2, CacheValue(g2.cache, OUTER_KEY)),
            !.ret = CacheValue(g2.cache, OUTER_KEY),
            !.bgSpawned = TRUE]
    ELSE IF ShouldCallApi(force, t, lastAttemptTime)
    THEN IF innerHit
         THEN LET r == OuterOnValue(g4, CacheValue(g4.cache, INNER_KEY),
                                    isMobile, force, t)
              IN [base EXCEPT
                    !.g = r.g, !.branch = r.branch, !.ret = r.ret,
                    !.attempted = TRUE, !.settled = 1,
                    !.throttleChecked = TRUE,
                    !.lastAttemptTime = lastAttemptTime,
                    !.fetched = CacheValue(g4.cache, INNER_KEY)]
         ELSE [base EXCEPT
                 !.g = g4, !.branch = "pending",
                 !.attempted = TRUE, !.net = TRUE,
                 !.throttleChecked = TRUE,
                 !.lastAttemptTime = lastAttemptTime]
    ELSE LET r == OuterOnCooldown(g3)
         IN [base EXCEPT
               !.g = r.g, !.branch = r.branch, !.ret = r.ret,
               !.throttleChecked = TRUE,
               !.lastAttemptTime = lastAttemptTime]

\* ---- observation of the last step ----
Event(op, isMobile, force) ==
    [ op |-> op, isMobile |-> isMobile, force |-> force,
      branch |-> "none", ret |-> EmptyRates,
      attempted |-> FALSE, net |-> FALSE, settled |-> 0,
      throttleChecked |-> FALSE, lastAttemptTime |-> 0,
      memoryBefore |-> 0,
      fetched |-> EmptyRates, innerLive |-> FALSE,
      upstream |-> "none", formatted |-> EmptyRates,
      writes |-> <<>>, toasts |-> <<>> ]

Args(isMobile, force) == [isMobile |-> isMobile, force |-> force]

PendingLoads ==
    loads[Args(FALSE, FALSE)] + loads[Args(FALSE, TRUE)]
    + loads[Args(TRUE, FALSE)] + loads[Args(TRUE, TRUE)]

VertoInit ==
    /\ now = StartTime
    /\ ticks = 0
    /\ lastSuccessfulVertoFxRates = DEFAULT_VERTOFX_RATES
    /\ lastApiAttemptTimestamp = 0
    /\ lastApiSuccess = FALSE
    /\ storage = NoItem
    /\ cache = [k \in CacheKeys |-> NoEntry]
    /\ cachedVertoFxRates = DEFAULT_VERTOFX_RATES
    /\ displayed = DEFAULT_VERTOFX_RATES
    /\ loads = [a \in LoadArgs |-> 0]
    /\ bgScheduled = 0
    /\ bgFetching = 0
    /\ orphans = 0
    /\ ev = Event("init", FALSE, FALSE)

\* What is in progress: calls awaiting their race, background refreshes
\* scheduled or running, fetchVertoFXRates calls left without an awaiter.
Active == PendingLoads + bgScheduled + bgFetching + orphans
Quiescent == Active = 0

\* Time passes. Every timer of the program (100 ms, 3 s, 5 s, 10 s) is due
\* before the smallest step ends, so a step of the clock finds nothing in
\* progress; within a call Date.now() keeps its value.
Tick(d) ==
    /\ ticks < MaxTicks
    /\ Quiescent
    /\ now' = now + d
    /\ ticks' = ticks + 1
    /\ ev' = Event("tick", FALSE, FALSE)
    /\ UNCHANGED <<lastSuccessfulVertoFxRates, lastApiAttemptTimestamp,
                   lastApiSuccess, storage, cache, cachedVertoFxRates,
                   displayed, loads, bgScheduled, bgFetching, orphans>>
    /\ UNCHANGED <<retryVars, fxVars, appVars>>

\* loadVertoFxRates(isMobile, setVertoFxRates, forceRefresh) is called:
\* everything up to the first await, or up to the return when none is
\* reached.
LoadStart(isMobile, force) ==
    \E r \in {LoadSync(Cur, isMobile, force, now)} :
    /\ (r.branch = "pending" \/ r.bgSpawned) => Active < MaxActive
    /\ Commit(r.g)
    /\ loads' = IF r.branch = "pending"
                THEN [loads EXCEPT ![Args(isMobile, force)] = @ + 1]
                ELSE loads
    /\ bgScheduled' = IF r.bgSpawned THEN bgScheduled + 1 ELSE bgScheduled
    /\ ev' = [Event("start", isMobile, force) EXCEPT
                !.branch = r.branch, !.ret = r.ret,
                !.attempted = r.attempted, !.net = r.net,
                !.settled = r.settled,
                !.throttleChecked = r.throttleChecked,
                !.lastAttemptTime = r.lastAttemptTime,
                !.memoryBefore = lastApiAttemptTimestamp,
                !.fetched = r.fetched,
                !.writes = r.g.writes, !.toasts = r.g.toasts]
    /\ UNCHANGED <<now, ticks, bgFetching, orphans>>
    /\ UNCHANGED <<retryVars, fxVars, appVars>>

\* The race awaited by a call with arguments a resolves: the upstream call
\* of its fetchVertoFXRates ended (e), fetchVertoFXRates finished, and the
\* call goes on at line 131. The fetcher's own 5 s timer can decide only
\* when it is due before the call's race timer.
LoadSettle(a, e) ==
    /\ loads[a] > 0
    /\ e.kind = "timeout" => INNER_TIMEOUT_MS < RaceTimeout(a.isMobile)
    /\ \E s \in {InnerSettle(Cur, e, now)} :
       \E r \in {OuterOnValue(s.g, s.value, a.isMobile, a.force, now)} :
         /\ Commit(r.g)
         /\ ev' = [Event("settle", a.isMobile, a.force) EXCEPT
                     !.branch = r.branch, !.ret = r.ret, !.settled = 1,
                     !.fetched = s.value, !.innerLive = s.live,
                     !.upstream = e.kind,
                     !.formatted = FormatRates(e.payload),
                     !.writes = r.g.writes, !.toasts = r.g.toasts]
    /\ loads' = [loads EXCEPT ![a] = @ - 1]
    /\ UNCHANGED <<now, ticks, bgScheduled, bgFetching, orphans>>
    /\ UNCHANGED <<retryVars, fxVars, appVars>>

\* The race timer of a call with arguments a fires first (only a timer
\* shorter than the fetcher's own can): the race rejects, the catch block
\* runs, and the fetchVertoFXRates call goes on without an awaiter.
LoadRaceTimeout(a) ==
    /\ loads[a] > 0
    /\ RaceTimeout(a.isMobile) < INNER_TIMEOUT_MS
    /\ \E r \in {OuterOnError(Cur, now)} :
         /\ Commit(r.g)
         /\ ev' = [Event("raceTimeout", a.isMobile, a.force) EXCEPT
                     !.branch = r.branch, !.ret = r.ret, !.settled = 1,
                     !.writes = r.g.writes, !.toasts = r.g.toasts]
    /\ loads' = [loads EXCEPT ![a] = @ - 1]
    /\ orphans' = orphans + 1
    /\ UNCHANGED <<now, ticks, bgScheduled, bgFetching>>
    /\ UNCHANGED <<retryVars, fxVars, appVars>>

\* A fetchVertoFXRates call nobody awaits any more finishes.
OrphanSettle(e) ==
    /\ orphans > 0
    /\ \E s \in {InnerSettle(Cur, e, now)} :
         /\ Commit(s.g)
         /\ ev' = [Event("orphanSettle", FALSE, FALSE) EXCEPT
                     !.fetched = s.value, !.innerLive = s.live,
                     !.upstream = e.kind,
                     !.formatted = FormatRates(e.payload),
                     !.toasts = s.g.toasts]
    /\ orphans' = orphans - 1
    /\ UNCHANGED <<now, ticks, loads, bgScheduled, bgFetching>>
    /\ UNCHANGED <<retryVars, fxVars, appVars>>

\* The 100 ms timer of a background refresh fires: fetchVertoFXRates is
\* called; when it answers from its cache the refresh finishes at once.
BackgroundStart ==
    /\ bgScheduled > 0
    /\ \E hit \in {InnerCacheHit(Cur, now)} :
       \E g1 \in {InnerAfterCacheRead(Cur, now)} :
       \E g2 \in {IF hit
                   THEN BackgroundOnValue(g1, CacheValue(g1.cache, INNER_KEY),
                                          now)
                   ELSE g1} :
         /\ bgFetching' = IF hit THEN bgFetching ELSE bgFetching + 1
         /\ Commit(g2)
         /\ ev' = [Event("bgStart", TRUE, FALSE) EXCEPT
                     !.attempted = TRUE, !.net = ~hit,
                     !.settled = IF hit THEN 1 ELSE 0,
                     !.branch = IF hit THEN "bgValue" ELSE "pending",
                     !.fetched = IF hit THEN CacheValue(g1.cache, INNER_KEY)
                                 ELSE EmptyRates,
                     !.writes = g2.writes, !.toasts = g2.toasts]
    /\ bgScheduled' = bgScheduled - 1
    /\ UNCHANGED <<now, ticks, loads, orphans>>
    /\ UNCHANGED <<retryVars, fxVars, appVars>>

\* The race awaited by a background refresh resolves.
BackgroundSettle(e) ==
    /\ bgFetching > 0
    /\ e.kind = "timeout" => INNER_TIMEOUT_MS < BACKGROUND_TIMEOUT_MS
    /\ \E s \in {InnerSettle(Cur, e, now)} :
       \E g2 \in {BackgroundOnValue(s.g, s.value, now)} :
         /\ Commit(g2)
         /\ ev' = [Event("bgSettle", TRUE, FALSE) EXCEPT
                     !.settled = 1, !.branch = "bgValue",
                     !.fetched = s.value, !.innerLive = s.live,
                     !.upstream = e.kind,
                     !.formatted = FormatRates(e.payload),
                     !.writes = g2.writes, !.toasts = g2.toasts]
    /\ bgFetching' = bgFetching - 1
    /\ UNCHANGED <<now, ticks, loads, bgScheduled, orphans>>
    /\ UNCHANGED <<retryVars, fxVars, appVars>>

\* The 3 s race timer of a background refresh fires first.
BackgroundRaceTimeout ==
    /\ bgFetching > 0
    /\ BACKGROUND_TIMEOUT_MS < INNER_TIMEOUT_MS
    /\ \E g2 \in {BackgroundOnError(Cur, now)} :
         /\ Commit(g2)
         /\ ev' = [Event("bgRaceTimeout", TRUE, FALSE) EXCEPT
                     !.settled = 1, !.branch = "bgError",
                     !.writes = g2.writes, !.toasts = g2.toasts]
    /\ bgFetching' = bgFetching - 1
    /\ orphans' = orphans + 1
    /\ UNCHANGED <<now, ticks, loads, bgScheduled>>
    /\ UNCHANGED <<retryVars, fxVars, appVars>>

\* The page is reloaded: module state starts over, localStorage stays.
Restart ==
    /\ lastSuccessfulVertoFxRates' = DEFAULT_VERTOFX_RATES
    /\ lastApiAttemptTimestamp' = 0
    /\ lastApiSuccess' = FALSE
    /\ cache' = [k \in CacheKeys |-> NoEntry]
    /\ cachedVertoFxRates' = DEFAULT_VERTOFX_RATES
    /\ displayed' = DEFAULT_VERTOFX_RATES
    /\ loads' = [a \in LoadArgs |-> 0]
    /\ bgScheduled' = 0
    /\ bgFetching' = 0
    /\ orphans' = 0
    /\ ev' = Event("restart", FALSE, FALSE)
    /\ UNCHANGED <<now, ticks, storage>>
    /\ UNCHANGED <<retryVars, fxVars, appVars>>

VertoNext ==
    \/ \E d \in TickSizes : Tick(d)
    \/ \E isMobile \in BOOLEAN, force \in BOOLEAN :
          LoadStart(isMobile, force)
    \/ \E a \in LoadArgs, e \in UpstreamEvents : LoadSettle(a, e)
    \/ \E a \in LoadArgs : LoadRaceTimeout(a)
    \/ \E e \in UpstreamEvents : OrphanSettle(e)
    \/ BackgroundStart
    \/ \E e \in UpstreamEvents : BackgroundSettle(e)
    \/ BackgroundRaceTimeout
    \/ Restart

(***************************************************************************)
(* Part 3: fetchFxRates (services/api.ts) on top of fetchExchangeRates     *)
(*         (src/src/services/currency-rates/api.ts)                        *)
(***************************************************************************)
FX_RATES_CACHE_KEY == "fx_rates_cache"
\* `currency_rates_${currencies.join('_')}` for ['USD', 'EUR', 'GBP', 'CAD']
BROWSER_CACHE_KEY == "currency_rates_USD_EUR_GBP_CAD"
FxKeys == {FX_RATES_CACHE_KEY, BROWSER_CACHE_KEY}

FX_RATES_CACHE_TTL_MS == 600000
BROWSER_CACHE_TTL_MS == 1800000

FxTickSizes == {FX_RATES_CACHE_TTL_MS, BROWSER_CACHE_TTL_MS}

\* data.data of a well-formed response, in hundredths
FxRates(delta) ==
    [ USD |-> 100, EUR |-> 92 + delta, GBP |-> 79 + delta,
      CAD |-> 136 + delta ]
FxPayloads == {FxRates(0), FxRates(1)}

\* how fetchWithTimeout can end: a well-formed response, a response without
\* data, a rejected request, its timeout
FxUpstreamEvents ==
    {[kind |-> "data", payload |-> p] : p \in FxPayloads}
    \cup {[kind |-> k, payload |-> EmptyRates] :
            k \in {"malformed", "reject", "timeout"}}

FxCallers == {"fetchExchangeRates", "fetchFxRates"}

\* no value: the call is pending or has thrown
NoFxValue == EmptyRates

FxEvent(op, fn) ==
    [ op |-> op, fn |-> fn, kind |-> "none", value |-> NoFxValue,
      net |-> FALSE, upstream |-> "none", toast |-> FALSE,
      ttl |-> 0, dropped |-> FALSE ]

\* fetchExchangeRates up to its await (lines 21-41): the stored rates when
\* browserStorage holds them, otherwise the request goes out.
FetchExchangeRatesSync(c, t) ==
    [ c |-> CacheAfterGet(c, BROWSER_CACHE_KEY, t),
      kind |-> IF CacheFresh(c, BROWSER_CACHE_KEY, t)
               THEN "value" ELSE "pending",
      value |-> IF CacheFresh(c, BROWSER_CACHE_KEY, t)
                THEN CacheValue(c, BROWSER_CACHE_KEY) ELSE NoFxValue,
      toast |-> FALSE ]

\* fetchExchangeRates after its await (lines 43-60): a well-formed response
\* is stored and returned; anything else is caught, announced and re-thrown.
FetchExchangeRatesSettleSwallow(c, e, t) ==
    IF e.kind = "data"
    THEN [ c |-> CacheSet(c, BROWSER_CACHE_KEY, e.payload,
                          BROWSER_CACHE_TTL_MS, t),
           kind |-> "value", value |-> e.payload, toast |-> FALSE ]
    ELSE [ c |-> c, kind |-> "value", value |-> NoFxValue, toast |-> TRUE ]
FetchExchangeRatesSettle(c, e, t) ==
    IF e.kind = "data"
    THEN [ c |-> CacheSet(c, BROWSER_CACHE_KEY, e.payload,
                          BROWSER_CACHE_TTL_MS, t),
           kind |-> "value", value |-> e.payload, toast |-> FALSE ]
    ELSE [ c |-> c, kind |-> "throw", value |-> NoFxValue, toast |-> TRUE ]

\* fetchFxRates before it calls fetchExchangeRates (lines 105-110)
FetchFxRatesCacheHit(c, t) == CacheFresh(c, FX_RATES_CACHE_KEY, t)
FetchFxRatesAfterCacheRead(c, t) == CacheAfterGet(c, FX_RATES_CACHE_KEY, t)

\* fetchFxRates once fetchExchangeRates has ended with r (lines 113-121):
\* rates are cached for 10 minutes and returned, an error is thrown on.
FetchFxRatesAfter(r, t) ==
    IF r.kind = "value"
    THEN [r EXCEPT !.c = CacheSet(r.c, FX_RATES_CACHE_KEY, r.value,
                                  FX_RATES_CACHE_TTL_MS, t)]
    ELSE r

\* what function fn makes of the result r of fetchExchangeRates
FxAfter(fn, r, t) ==
    IF fn = "fetchFxRates" THEN FetchFxRatesAfter(r, t) ELSE r

FxInit ==
    /\ fxClock = StartTime
    /\ fxTicks = 0
    /\ fxCache = [k \in FxKeys |-> NoEntry]
    /\ fxCall = "idle"
    /\ fxOut = FxEvent("init", "none")

FxTick(d) ==
    /\ fxTicks < MaxFxTicks
    /\ fxCall = "idle"
    /\ fxClock' = fxClock + d
    /\ fxTicks' = fxTicks + 1
    /\ fxOut' = FxEvent("tick", "none")
    /\ UNCHANGED <<fxCache, fxCall>>
    /\ UNCHANGED <<retryVars, vertoVars, appVars>>

\* fn() is called: everything up to its await, or up to its return when a
\* cache answers.
FxCallStart(fn) ==
    /\ fxCall = "idle"
    /\ IF fn = "fetchFxRates" /\ FetchFxRatesCacheHit(fxCache, fxClock)
       THEN /\ fxCache' = fxCache
            /\ fxCall' = "idle"
            /\ fxOut' = [FxEvent("start", fn) EXCEPT
                           !.kind = "value",
                           !.value = CacheValue(fxCache, FX_RATES_CACHE_KEY)]
       ELSE \E c1 \in {IF fn = "fetchFxRates"
                       THEN FetchFxRatesAfterCacheRead(fxCache, fxClock)
                       ELSE fxCache} :
            \E s \in {FetchExchangeRatesSync(c1, fxClock)} :
            \E r \in {IF s.kind = "value" THEN FxAfter(fn, s, fxClock)
                      ELSE s} :
              /\ fxCache' = r.c
              /\ fxCall' = IF r.kind = "pending" THEN fn ELSE "idle"
              /\ fxOut' = [FxEvent("start", fn) EXCEPT
                             !.kind = IF r.kind = "pending"
                                      THEN "none" ELSE r.kind,
                             !.value = r.value,
                             !.net = (r.kind = "pending")]
    /\ UNCHANGED <<fxClock, fxTicks>>
    /\ UNCHANGED <<retryVars, vertoVars, appVars>>

\* The request of the call in flight ends with e.
FxCallSettle(e) ==
    /\ fxCall # "idle"
    /\ \E r \in {FxAfter(fxCall,
                         FetchExchangeRatesSettle(fxCache, e, fxClock),
                         fxClock)} :
         /\ fxCache' = r.c
         /\ fxOut' = [FxEvent("settle", fxCall) EXCEPT
                        !.kind = r.kind, !.value = r.value,
                        !.upstream = e.kind, !.toast = r.toast]
    /\ fxCall' = "idle"
    /\ UNCHANGED <<fxClock, fxTicks>>
    /\ UNCHANGED <<retryVars, vertoVars, appVars>>

FxNext ==
    \/ \E d \in FxTickSizes : FxTick(d)
    \/ \E fn \in FxCallers : FxCallStart(fn)
    \/ \E e \in FxUpstreamEvents : FxCallSettle(e)

\* ---- the expiring cache on its own ----
CacheTtls == {FX_RATES_CACHE_TTL_MS, BROWSER_CACHE_TTL_MS}

\* get(k): the value or absent; a stale entry is dropped
CacheGet(k) ==
    /\ fxCall = "idle"
    /\ fxCache' = CacheAfterGet(fxCache, k, fxClock)
    /\ fxOut' = [FxEvent("get", k) EXCEPT
                   !.kind = IF CacheFresh(fxCache, k, fxClock)
                            THEN "value" ELSE "absent",
                   !.value = IF CacheFresh(fxCache, k, fxClock)
                             THEN CacheValue(fxCache, k) ELSE NoFxValue,
                   !.dropped = (fxCache'[k] # fxCache[k])]
    /\ UNCHANGED <<fxClock, fxTicks, fxCall>>
    /\ UNCHANGED <<retryVars, vertoVars, appVars>>

\* set(k, v, ttl)
CachePut(k, v, ttl) ==
    /\ fxCall = "idle"
    /\ fxCache' = CacheSet(fxCache, k, v, ttl, fxClock)
    /\ fxOut' = [FxEvent("set", k) EXCEPT !.value = v, !.ttl = ttl]
    /\ UNCHANGED <<fxClock, fxTicks, fxCall>>
    /\ UNCHANGED <<retryVars, vertoVars, appVars>>

CacheNext ==
    \/ \E d \in FxTickSizes : FxTick(d)
    \/ \E k \in FxKeys : CacheGet(k)
    \/ \E k \in FxKeys, v \in FxPayloads, ttl \in CacheTtls :
          CachePut(k, v, ttl)

\* The rate-resolution functions of both modules; they share no state, so
\* a behaviour exercises one module from the initial state.
ResolveNext ==
    \/ fxOut.op = "init" /\ VertoNext
    \/ ev.op = "init" /\ FxNext

(***************************************************************************)
(* Part 4: the pricing functions calculateUsdPrice and                     *)
(*         calculateOtherCurrencyPrice (src/unnamed/part_005)              *)
(*                                                                         *)
(* A JavaScript number is NaN, an infinity or a fraction n/d in lowest     *)
(* terms with d > 0.  The arithmetic is exact: the rounding of the double  *)
(* arithmetic is left out, its special values are kept.                    *)
(***************************************************************************)
RECURSIVE Gcd(_, _)
Gcd(a, b) == IF b = 0 THEN a ELSE Gcd(b, a % b)

Abs(n) == IF n < 0 THEN -n ELSE n

NaN == [kind |-> "nan", n |-> 0, d |-> 1]

\* Infinity (s = 1) and -Infinity (s = -1)
Inf(s) == [kind |-> "inf", n |-> s, d |-> 1]

\* the number n/d, d # 0
Num(n, d) ==
    LET g == Gcd(Abs(n), Abs(d))
        s == IF d < 0 THEN -1 ELSE 1
    IN  [kind |-> "num", n |-> (s * n) \div g, d |-> (s * d) \div g]

Zero == Num(0, 1)
One == Num(1, 1)
Hundred == Num(100, 1)

Sign(x) == IF x.n < 0 THEN -1 ELSE 1

\* !x of a number: true of 0 and of NaN
Falsy(x) == x.kind = "nan" \/ (x.kind = "num" /\ x.n = 0)

\* x > 0 and x <= 0 (both false of NaN)
Positive(x) == x.kind # "nan" /\ x.n > 0
NonPositive(x) == x.kind # "nan" /\ x.n <= 0

\* a * b
Mul(a, b) ==
    IF a.kind = "nan" \/ b.kind = "nan" THEN NaN
    ELSE IF a.kind = "inf" \/ b.kind = "inf"
         THEN IF a.n = 0 \/ b.n = 0 THEN NaN ELSE Inf(Sign(a) * Sign(b))
         ELSE Num(a.n * b.n, a.d * b.d)

\* a + b
Add(a, b) ==
    IF a.kind = "nan" \/ b.kind = "nan" THEN NaN
    ELSE IF a.kind = "inf" /\ b.kind = "inf"
         THEN IF a.n = b.n THEN a ELSE NaN
         ELSE IF a.kind = "inf" THEN a
         ELSE IF b.kind = "inf" THEN b
         ELSE Num(a.n * b.d + b.n * a.d, a.d * b.d)

\* a - b
Sub(a, b) == Add(a, Mul(Num(-1, 1), b))

\* a / b
Div(a, b) ==
    IF a.kind = "nan" \/ b.kind = "nan" THEN NaN
    ELSE IF a.kind = "inf"
         THEN IF b.kind = "inf" THEN NaN ELSE Inf(Sign(a) * Sign(b))
         ELSE IF b.kind = "inf" THEN Zero
         ELSE IF b.n = 0
              THEN IF a.n = 0 THEN NaN ELSE Inf(Sign(a))
              ELSE Num(a.n * b.d, a.d * b.n)

\* the guard of calculateUsdPrice left out
calculateUsdPriceUnguarded(usdtNgn, usdMargin) ==
    Mul(usdtNgn, Add(One, Div(usdMargin, Hundred)))

\* the margin taken as a fraction, not as a percentage
calculateUsdPriceMarginAsFraction(usdtNgn, usdMargin) ==
    IF Falsy(usdtNgn) THEN Zero
    ELSE Mul(usdtNgn, Add(One, usdMargin))

\* calculateUsdPrice(usdtNgn, usdMargin)
calculateUsdPrice(usdtNgn, usdMargin) ==
    IF Falsy(usdtNgn) THEN Zero
    ELSE LET marginDecimal == Div(usdMargin, Hundred)
         IN  Mul(usdtNgn, Add(One, marginDecimal))

\* the fee added instead of deducted
calculateOtherCurrencyPriceFeeAdded(usdtNgn, currencyFx, otherCurrenciesMargin, usdtToUsdFee) ==
    IF Falsy(usdtNgn) \/ Falsy(currencyFx) THEN Zero
    ELSE Mul(Div(Mul(usdtNgn, Add(One, usdtToUsdFee)), currencyFx),
             Add(One, Div(otherCurrenciesMargin, Hundred)))

\* calculateOtherCurrencyPrice(usdtNgn, currencyFx,
\*                             otherCurrenciesMargin, usdtToUsdFee)
calculateOtherCurrencyPrice(usdtNgn, currencyFx, otherCurrenciesMargin, usdtToUsdFee) ==
    IF Falsy(usdtNgn) \/ Falsy(currencyFx) THEN Zero
    ELSE LET marginDecimal == Div(otherCurrenciesMargin, Hundred)
         IN  Mul(Div(Mul(usdtNgn, Sub(One, usdtToUsdFee)), currencyFx),
                 Add(One, marginDecimal))

\* the default of the parameter usdtToUsdFee
DefaultUsdtToUsdFee == Num(1, 1000)

\* base rates, FX rates, margins and fees the functions are tried on
BaseRates == {NaN, Num(-1000, 1), Zero, Num(1000, 1), Num(1500, 1)}
FxRateValues == {NaN, Num(-92, 100), Zero, Num(92, 100), Num(135, 100)}
Margins == {Num(-150, 1), Num(-5, 2), Zero, Num(5, 2), Num(3, 1)}
Fees == {Zero, DefaultUsdtToUsdFee, Num(1, 100)}


(***************************************************************************)
(* Part 5: useCurrencyData (src/unnamed/part_000)                          *)
(*                                                                         *)
(* loadAllData, updateUsdtRate and calculateAllCostPrices are created      *)
(* anew at every render and read usdtNgnRate, fxRates and costPrices of    *)
(* that render.  A call of loadAllData or updateUsdtRate keeps, across     *)
(* its awaits, the functions and values of the render it was called in;    *)
(* the state it and others set meanwhile is seen by later renders only.    *)
(***************************************************************************)
\* part_000:58
USDT_TO_USD_FEE == Num(1, 1000)

\* the margins updateUsdtRate uses when no settings are found, part_000:177
DefaultUsdMargin == Num(5, 2)
DefaultOtherCurrenciesMargin == Num(3, 1)

\* {} as CurrencyRates
NoRates == [c \in {} |-> Zero]

\* rate sets the services answer with
RatesUsdEur == [c \in {"USD", "EUR"} |->
                  IF c = "USD" THEN One ELSE Num(92, 100)]
RatesEurGbp == [c \in {"EUR", "GBP"} |->
                  IF c = "EUR" THEN Num(95, 100) ELSE Num(79, 100)]
RateSets == {NoRates, RatesUsdEur, RatesEurGbp}

\* USDT/NGN rates fetchLatestUsdtNgnRate answers with (0 for none)
DbRates == {Zero, Num(1000, 1)}

\* rates passed to updateUsdtRate
EnteredRates == {NaN, Num(-1000, 1), Zero, Num(1500, 1)}

\* what fetchMarginSettings answers with (present = FALSE for null)
NoMargins == [present |-> FALSE, usd_margin |-> Zero,
              other_currencies_margin |-> Zero]
MarginSettings ==
    {NoMargins,
     [present |-> TRUE, usd_margin |-> Num(5, 2),
      other_currencies_margin |-> Num(3, 1)]}

\* the state of the hook
HookState ==
    [usdtNgnRate |-> usdtNgnRate, fxRates |-> fxRates,
     costPrices |-> costPrices, previousCostPrices |-> previousCostPrices,
     lastUpdated |-> lastUpdated, isLoading |-> isLoading]

\* what the functions of the current render read
Render ==
    [usdtNgnRate |-> usdtNgnRate, fxRates |-> fxRates,
     costPrices |-> costPrices]

FirstRender == [usdtNgnRate |-> Zero, fxRates |-> NoRates,
                costPrices |-> NoRates]

\* a call of loadAllData or updateUsdtRate between two of its awaits
Call(id, fn, pc, render, rate) ==
    [id |-> id, fn |-> fn, pc |-> pc, render |-> render, rate |-> rate,
     usdtRate |-> Zero, rates |-> NoRates, margins |-> NoMargins]

\* what a step did: the call that took it, the rate passed to
\* updateUsdtRate and whether it was rejected, whether it called calculateAllCostPrices and with which
\* margins, the saving services it called, its toast, how the call ended
HookEvent(op, fn) ==
    [op |-> op, fn |-> fn, id |-> 0, rate |-> Zero, rejected |-> FALSE,
     calculated |-> FALSE, usdMargin |-> Zero,
     otherCurrenciesMargin |-> Zero,
     saved |-> {}, toast |-> "none", ended |-> "no"]

\* the check of the FX rates left out
PassesInputChecksRateOnly(r) ==
    ~(Falsy(r.usdtNgnRate) \/ NonPositive(r.usdtNgnRate))

\* the input checks of calculateAllCostPrices, part_000:209-217
PassesInputChecks(r) ==
    /\ ~(Falsy(r.usdtNgnRate) \/ NonPositive(r.usdtNgnRate))
    /\ DOMAIN r.fxRates # {}

\* newCostPrices of calculateAllCostPrices, part_000:222-252
NewCostPrices(r, usdMargin, otherCurrenciesMargin) ==
    [c \in {"USD"} \cup DOMAIN r.fxRates |->
       IF c = "USD"
       THEN calculateUsdPrice(r.usdtNgnRate, usdMargin)
       ELSE calculateOtherCurrencyPrice(r.usdtNgnRate, r.fxRates[c],
                                        otherCurrenciesMargin,
                                        USDT_TO_USD_FEE)]

\* the previous set left as it was
calculateAllCostPricesKeepsPrevious(h, r, usdMargin, otherCurrenciesMargin) ==
    IF ~PassesInputChecks(r) THEN h
    ELSE [h EXCEPT !.costPrices =
                     NewCostPrices(r, usdMargin, otherCurrenciesMargin)]

\* calculateAllCostPrices(usdMargin, otherCurrenciesMargin) of the render
\* with the values r, applied to the state h
calculateAllCostPrices(h, r, usdMargin, otherCurrenciesMargin) ==
    IF ~PassesInputChecks(r) THEN h
    ELSE [h EXCEPT !.previousCostPrices = r.costPrices,
                   !.costPrices =
                     NewCostPrices(r, usdMargin, otherCurrenciesMargin)]

Calculated(e, usdMargin, otherCurrenciesMargin) ==
    [e EXCEPT !.calculated = TRUE, !.usdMargin = usdMargin,
              !.otherCurrenciesMargin = otherCurrenciesMargin]

\* the end of a call
Ended(e, how, toast) == [e EXCEPT !.ended = how, !.toast = toast]

Done(c) == [c EXCEPT !.pc = "done"]

\* catch and finally of loadAllData and of updateUsdtRate
HookCatch(h, c, e) ==
    [h |-> [h EXCEPT !.isLoading = FALSE], c |-> Done(c),
     e |-> Ended(e, "error", "error")]

\* the normal end of loadAllData: part_000:120-121 and finally
LoadAllDataEnd(h, c, e) ==
    [h |-> [h EXCEPT !.lastUpdated = c.id, !.isLoading = FALSE],
     c |-> Done(c), e |-> Ended(e, "ok", "success")]

\* loadAllData after fetchLatestUsdtNgnRate, part_000:67-74
LoadAllDataOnRate(h, c, o) ==
    LET e == [HookEvent("settle", "loadAllData") EXCEPT !.id = c.id]
    IN  IF o.kind = "throw" THEN HookCatch(h, c, e)
        ELSE [h |-> IF ~Falsy(o.usdtRate) /\ Positive(o.usdtRate)
                    THEN [h EXCEPT !.usdtNgnRate = o.usdtRate]
                    ELSE h,
              c |-> [c EXCEPT !.pc = "rates", !.usdtRate = o.usdtRate],
              e |-> e]

\* loadAllData after fetchCurrencyRates and, when that gave no rates,
\* fetchFxRates and saveCurrencyRates, part_000:77-91
LoadAllDataOnRates(h, c, o) ==
    LET e == [HookEvent("settle", "loadAllData") EXCEPT !.id = c.id]
    IN  IF o.kind = "throw" THEN HookCatch(h, c, e)
        ELSE [h |-> [h EXCEPT !.fxRates = o.rates],
              c |-> [c EXCEPT !.pc = "margins", !.rates = o.rates],
              e |-> [e EXCEPT !.saved =
                       IF o.fromApi /\ DOMAIN o.rates # {}
                       THEN {"saveCurrencyRates"} ELSE {}]]

\* loadAllData after fetchVertoFXRates and fetchMarginSettings,
\* part_000:94-118
LoadAllDataOnMargins(h, c, o) ==
    LET e == [HookEvent("settle", "loadAllData") EXCEPT !.id = c.id]
        d == [c EXCEPT !.margins = o.margins]
    IN  IF o.kind = "throw" THEN HookCatch(h, c, e)
        ELSE IF /\ o.margins.present
                /\ ~Falsy(c.usdtRate)
                /\ DOMAIN c.rates # {}
        THEN [h |-> calculateAllCostPrices(h, c.render,
                        o.margins.usd_margin,
                        o.margins.other_currencies_margin),
              c |-> [d EXCEPT !.pc = "history"],
              e |-> [Calculated(e, o.margins.usd_margin,
                                o.margins.other_currencies_margin)
                       EXCEPT !.saved = {"saveHistoricalRates"}]]
        ELSE LoadAllDataEnd(h, d, e)

\* loadAllData after saveHistoricalRates, part_000:110-127
LoadAllDataOnHistory(h, c, o) ==
    LET e == [HookEvent("settle", "loadAllData") EXCEPT !.id = c.id]
    IN  IF o.kind = "throw" THEN HookCatch(h, c, e)
        ELSE LoadAllDataEnd(h, c, e)

\* the guard of updateUsdtRate with the comparison left out
InvalidRateFalsyOnly(rate) == Falsy(rate)

\* the guard of updateUsdtRate, part_000:134
InvalidRate(rate) ==
    Falsy(rate) \/ rate.kind = "nan" \/ NonPositive(rate)

\* the normal end of updateUsdtRate: part_000:185 and finally
UpdateUsdtRateEnd(h, c, e) ==
    [h |-> [h EXCEPT !.isLoading = FALSE], c |-> Done(c),
     e |-> Ended(e, "ok", "success")]

\* updateUsdtRate after saveUsdtNgnRate, part_000:146-163 and 186-190
UpdateUsdtRateOnSave(h, c, o) ==
    LET e == [HookEvent("settle", "updateUsdtRate") EXCEPT !.id = c.id]
    IN  IF o.kind = "throw" THEN HookCatch(h, c, e)
        ELSE IF o.success
        THEN [h |-> [h EXCEPT !.lastUpdated = c.id],
              c |-> [c EXCEPT !.rates = c.render.fxRates,
                              !.pc = IF DOMAIN c.render.fxRates = {}
                                     THEN "fetchFx" ELSE "margins"],
              e |-> e]
        ELSE [h |-> h, c |-> [c EXCEPT !.pc = "revert"],
              e |-> [e EXCEPT !.toast = "error"]]

\* updateUsdtRate after fetchFxRates and saveCurrencyRates, part_000:156-162
UpdateUsdtRateOnFetchFx(h, c, o) ==
    LET e == [HookEvent("settle", "updateUsdtRate") EXCEPT !.id = c.id]
    IN  IF o.kind = "throw" THEN HookCatch(h, c, e)
        ELSE [h |-> [h EXCEPT !.fxRates = o.rates],
              c |-> [c EXCEPT !.pc = "margins", !.rates = o.rates],
              e |-> [e EXCEPT !.saved =
                       IF DOMAIN o.rates # {}
                       THEN {"saveCurrencyRates"} ELSE {}]]

\* updateUsdtRate after fetchMarginSettings, part_000:166-185
UpdateUsdtRateOnMargins(h, c, o) ==
    LET e == [HookEvent("settle", "updateUsdtRate") EXCEPT !.id = c.id]
        d == [c EXCEPT !.margins = o.margins]
        um == IF o.margins.present THEN o.margins.usd_margin
              ELSE DefaultUsdMargin
        om == IF o.margins.present THEN o.margins.other_currencies_margin
              ELSE DefaultOtherCurrenciesMargin
        k == calculateAllCostPrices(h, c.render, um, om)
        f == Calculated(e, um, om)
    IN  IF o.kind = "throw" THEN HookCatch(h, c, e)
        ELSE IF DOMAIN c.rates # {}
        THEN [h |-> k, c |-> [d EXCEPT !.pc = "history"],
              e |-> [f EXCEPT !.saved = {"saveHistoricalRates"}]]
        ELSE UpdateUsdtRateEnd(k, d, f)

\* updateUsdtRate after saveHistoricalRates, part_000:182-185
UpdateUsdtRateOnHistory(h, c, o) ==
    LET e == [HookEvent("settle", "updateUsdtRate") EXCEPT !.id = c.id]
    IN  IF o.kind = "throw" THEN HookCatch(h, c, e)
        ELSE UpdateUsdtRateEnd(h, c, e)

\* updateUsdtRate after the fetchLatestUsdtNgnRate of the revert,
\* part_000:190-193
UpdateUsdtRateOnRevert(h, c, o) ==
    LET e == [HookEvent("settle", "updateUsdtRate") EXCEPT !.id = c.id]
    IN  IF o.kind = "throw" THEN HookCatch(h, c, e)
        ELSE [h |-> [(IF ~Falsy(o.usdtRate) /\ Positive(o.usdtRate)
                      THEN [h EXCEPT !.usdtNgnRate = o.usdtRate]
                      ELSE h) EXCEPT !.isLoading = FALSE],
              c |-> Done(c),
              e |-> Ended(e, "reverted", "none")]

Throw == [kind |-> "throw"]

\* what the awaited service of a call at pc can answer with
Outcomes(pc) ==
    IF pc \in {"rate", "revert"}
    THEN {Throw} \cup {[kind |-> "value", usdtRate |-> u] : u \in DbRates}
    ELSE IF pc = "rates"
    THEN {Throw}
         \cup {[kind |-> "value", rates |-> r, fromApi |-> FALSE] :
                 r \in RateSets \ {NoRates}}
         \cup {[kind |-> "value", rates |-> r, fromApi |-> TRUE] :
                 r \in RateSets}
    ELSE IF pc = "fetchFx"
    THEN {Throw} \cup {[kind |-> "value", rates |-> r] : r \in RateSets}
    ELSE IF pc = "margins"
    THEN {Throw} \cup {[kind |-> "value", margins |-> m] : m \in MarginSettings}
    ELSE IF pc = "save"
    THEN {Throw} \cup {[kind |-> "value", success |-> b] : b \in BOOLEAN}
    ELSE {Throw, [kind |-> "value"]}

RemoveAt(s, i) == [j \in 1..(Len(s) - 1) |-> IF j < i THEN s[j] ELSE s[j + 1]]

HookUnchanged == UNCHANGED <<retryVars, vertoVars, fxVars, pricingVars, inputVars,
                            refresherVars>>

HookInit ==
    /\ usdtNgnRate = Zero
    /\ fxRates = NoRates
    /\ costPrices = NoRates
    /\ previousCostPrices = NoRates
    /\ lastUpdated = 0
    /\ isLoading = FALSE
    /\ hookCalls = <<>>
    /\ hookStarted = 0
    /\ hookEv = HookEvent("init", "none")

\* the state, the call in place i and the observation after a step
HookApply(i, n) ==
    /\ usdtNgnRate' = n.h.usdtNgnRate
    /\ fxRates' = n.h.fxRates
    /\ costPrices' = n.h.costPrices
    /\ previousCostPrices' = n.h.previousCostPrices
    /\ lastUpdated' = n.h.lastUpdated
    /\ isLoading' = n.h.isLoading
    /\ hookCalls' = IF n.c.pc = "done" THEN RemoveAt(hookCalls, i)
                    ELSE [hookCalls EXCEPT ![i] = n.c]
    /\ hookEv' = n.e
    /\ UNCHANGED hookStarted
    /\ HookUnchanged

\* loadAllData() is called: by the effect of the first render, later by
\* whoever holds the function of the current render; part_000:61-67
LoadAllDataStart ==
    /\ hookStarted < MaxHookCalls
    /\ hookStarted' = hookStarted + 1
    /\ isLoading' = TRUE
    /\ hookCalls' = Append(hookCalls,
                           Call(hookStarted + 1, "loadAllData", "rate",
                                Render, Zero))
    /\ hookEv' = [HookEvent("start", "loadAllData") EXCEPT
                    !.id = hookStarted + 1]
    /\ UNCHANGED <<usdtNgnRate, fxRates, costPrices, previousCostPrices,
                   lastUpdated>>
    /\ HookUnchanged

\* updateUsdtRate(rate) is called; part_000:131-146
UpdateUsdtRateStart(rate) ==
    /\ hookStarted > 0
    /\ InvalidRate(rate) \/ hookStarted < MaxHookCalls
    /\ IF InvalidRate(rate)
       THEN /\ hookEv' = [HookEvent("start", "updateUsdtRate") EXCEPT
                            !.rate = rate, !.rejected = TRUE,
                            !.toast = "error"]
            /\ UNCHANGED <<usdtNgnRate, isLoading, hookCalls, hookStarted>>
       ELSE /\ hookStarted' = hookStarted + 1
            /\ isLoading' = TRUE
            /\ usdtNgnRate' = rate
            /\ hookCalls' = Append(hookCalls,
                                   Call(hookStarted + 1, "updateUsdtRate",
                                        "save", Render, rate))
            /\ hookEv' = [HookEvent("start", "updateUsdtRate") EXCEPT
                            !.id = hookStarted + 1, !.rate = rate,
                            !.saved = {"saveUsdtNgnRate"}]
    /\ UNCHANGED <<fxRates, costPrices, previousCostPrices, lastUpdated>>
    /\ HookUnchanged

\* the awaited service of a loadAllData call answers
LoadAllDataSettle(i, o) ==
    /\ hookCalls[i].fn = "loadAllData"
    /\ HookApply(i,
         IF hookCalls[i].pc = "rate"
         THEN LoadAllDataOnRate(HookState, hookCalls[i], o)
         ELSE IF hookCalls[i].pc = "rates"
         THEN LoadAllDataOnRates(HookState, hookCalls[i], o)
         ELSE IF hookCalls[i].pc = "margins"
         THEN LoadAllDataOnMargins(HookState, hookCalls[i], o)
         ELSE LoadAllDataOnHistory(HookState, hookCalls[i], o))

\* the awaited service of an updateUsdtRate call answers
UpdateUsdtRateSettle(i, o) ==
    /\ hookCalls[i].fn = "updateUsdtRate"
    /\ HookApply(i,
         IF hookCalls[i].pc = "save"
         THEN UpdateUsdtRateOnSave(HookState, hookCalls[i], o)
         ELSE IF hookCalls[i].pc = "fetchFx"
         THEN UpdateUsdtRateOnFetchFx(HookState, hookCalls[i], o)
         ELSE IF hookCalls[i].pc = "margins"
         THEN UpdateUsdtRateOnMargins(HookState, hookCalls[i], o)
         ELSE IF hookCalls[i].pc = "history"
         THEN UpdateUsdtRateOnHistory(HookState, hookCalls[i], o)
         ELSE UpdateUsdtRateOnRevert(HookState, hookCalls[i], o))

\* calculateAllCostPrices(usdMargin, otherCurrenciesMargin) of the current
\* render is called by the user of the hook
CalculateAllCostPricesCall(usdMargin, otherCurrenciesMargin) ==
    /\ hookStarted > 0
    /\ hookStarted < MaxHookCalls
    /\ hookStarted' = hookStarted + 1
    /\ \E k \in {calculateAllCostPrices(HookState, Render, usdMargin,
                                        otherCurrenciesMargin)} :
         /\ costPrices' = k.costPrices
         /\ previousCostPrices' = k.previousCostPrices
    /\ hookEv' = Calculated(HookEvent("call", "calculateAllCostPrices"),
                            usdMargin, otherCurrenciesMargin)
    /\ UNCHANGED <<usdtNgnRate, fxRates, lastUpdated, isLoading, hookCalls>>
    /\ HookUnchanged

HookNext ==
    \/ LoadAllDataStart
    \/ \E rate \in EnteredRates : UpdateUsdtRateStart(rate)
    \/ \E i \in 1..Len(hookCalls) :
         \E o \in Outcomes(hookCalls[i].pc) : LoadAllDataSettle(i, o)
    \/ \E i \in 1..Len(hookCalls) :
         \E o \in Outcomes(hookCalls[i].pc) : UpdateUsdtRateSettle(i, o)
    \/ \E m \in MarginSettings \ {NoMargins} :
         CalculateAllCostPricesCall(m.usd_margin, m.other_currencies_margin)
(***************************************************************************)
(* The pricing functions and calculateAllCostPrices on their own           *)
(***************************************************************************)
\* the currencies of fxRates tried
FxKeySets == {{}, {"USD", "EUR"}, {"EUR", "GBP"}}

PricingArgs ==
    [usdtNgnRate : BaseRates, currencyFxRate : FxRateValues,
     margin : Margins, usdtToUsdFee : Fees, fxKeys : FxKeySets]

\* fxRates with the rate tried for EUR
FxRatesOf(a) ==
    [c \in a.fxKeys |-> IF c = "USD" THEN One
                        ELSE IF c = "EUR" THEN a.currencyFxRate
                        ELSE Num(79, 100)]

\* the cost prices held before calculateAllCostPrices is tried
OldCostPrices == [c \in {"USD", "CAD"} |-> Num(1200, 1)]

NoPrice == [fn |-> "none", value |-> Zero, passed |-> FALSE,
            costPrices |-> NoRates, previousCostPrices |-> NoRates]

PricingIdle ==
    /\ pricingArgs = [usdtNgnRate |-> Zero, currencyFxRate |-> Zero,
                      margin |-> Zero, usdtToUsdFee |-> Zero, fxKeys |-> {}]
    /\ pricingOut = NoPrice

PricingUnchanged ==
    UNCHANGED <<retryVars, vertoVars, fxVars, hookVars, inputVars,
                refresherVars>>

\* calculateUsdPrice(usdtNgnRate, margin)
CallCalculateUsdPrice ==
    /\ pricingOut.fn = "none"
    /\ pricingOut' =
         [NoPrice EXCEPT
            !.fn = "calculateUsdPrice",
            !.value = calculateUsdPrice(pricingArgs.usdtNgnRate,
                                        pricingArgs.margin)]
    /\ UNCHANGED pricingArgs
    /\ PricingUnchanged

\* calculateOtherCurrencyPrice(usdtNgnRate, currencyFxRate, margin,
\*                             usdtToUsdFee)
CallCalculateOtherCurrencyPrice ==
    /\ pricingOut.fn = "none"
    /\ pricingOut' =
         [NoPrice EXCEPT
            !.fn = "calculateOtherCurrencyPrice",
            !.value = calculateOtherCurrencyPrice(pricingArgs.usdtNgnRate,
                                                  pricingArgs.currencyFxRate,
                                                  pricingArgs.margin,
                                                  pricingArgs.usdtToUsdFee)]
    /\ UNCHANGED pricingArgs
    /\ PricingUnchanged

\* calculateAllCostPrices(margin, margin) of a render with usdtNgnRate and
\* the FX rates tried, while OldCostPrices are held
CallCalculateAllCostPrices ==
    /\ pricingOut.fn = "none"
    /\ \E r \in {[usdtNgnRate |-> pricingArgs.usdtNgnRate,
                  fxRates |-> FxRatesOf(pricingArgs),
                  costPrices |-> OldCostPrices]} :
         \E k \in {calculateAllCostPrices(
                     [costPrices |-> OldCostPrices,
                      previousCostPrices |-> NoRates],
                     r, pricingArgs.margin, pricingArgs.margin)} :
           pricingOut' =
             [NoPrice EXCEPT
                !.fn = "calculateAllCostPrices",
                !.passed = PassesInputChecks(r),
                !.costPrices = k.costPrices,
                !.previousCostPrices = k.previousCostPrices]
    /\ UNCHANGED pricingArgs
    /\ PricingUnchanged

PricingNext ==
    \/ CallCalculateUsdPrice
    \/ CallCalculateOtherCurrencyPrice
    \/ CallCalculateAllCostPrices
(***************************************************************************)
(* CurrencyInput (src/unnamed/part_002)                                    *)
(***************************************************************************)
\* texts tried as the content of the input field
InputChars == {"0", "7", "-", ".", "x"}
InputTexts == UNION {[1..n -> InputChars] : n \in 0..MaxTextLen}

\* how many characters of text from place i on are decimal digits
RECURSIVE DigitRun(_, _)
DigitRun(text, i) ==
    IF i <= Len(text) /\ IsDigit(text[i]) THEN 1 + DigitRun(text, i + 1)
    ELSE 0

\* the number spelled by the k digits of text from place i on
RECURSIVE DigitsValue(_, _, _)
DigitsValue(text, i, k) ==
    IF k = 0 THEN 0
    ELSE DigitsValue(text, i, k - 1) * 10 + DigitValue(text[i + k - 1])

RECURSIVE TenTo(_)
TenTo(k) == IF k = 0 THEN 1 ELSE 10 * TenTo(k - 1)

\* parseFloat(text): the longest front of text that spells a decimal
\* number (sign, digits, point, digits), NaN when there is none
ParseFloat(text) ==
    LET neg == Len(text) > 0 /\ text[1] = "-"
        s == IF neg THEN 2 ELSE 1
        ni == DigitRun(text, s)
        dot == s + ni <= Len(text) /\ text[s + ni] = "."
        nf == IF dot THEN DigitRun(text, s + ni + 1) ELSE 0
        mag == Num(DigitsValue(text, s, ni) * TenTo(nf)
                     + DigitsValue(text, s + ni + 1, nf), TenTo(nf))
    IN  IF ni = 0 /\ nf = 0 THEN NaN
        ELSE IF neg THEN Mul(Num(-1, 1), mag) ELSE mag

\* the test of handleSubmit with the comparison left out
AcceptsNumValueAnyNumber(numValue) == numValue.kind # "nan"

\* the test of handleSubmit, part_002:42
AcceptsNumValue(numValue) == numValue.kind # "nan" /\ Positive(numValue)

InputEvent(op) ==
    [op |-> op, numValue |-> NaN, onChange |-> <<>>, onSubmit |-> 0]

InputInit ==
    /\ inputValue = <<"0">>
    /\ isError = FALSE
    /\ isSaved = FALSE
    /\ inputEv = InputEvent("init")

InputUnchanged ==
    UNCHANGED <<retryVars, vertoVars, fxVars, pricingVars, hookVars,
                refresherVars>>

\* handleChange, part_002:29-32
HandleChange(text) ==
    /\ inputValue' = text
    /\ isError' = FALSE
    /\ inputEv' = InputEvent("change")
    /\ UNCHANGED isSaved
    /\ InputUnchanged

\* handleSubmit, part_002:40-49, with showSavedIndicator
HandleSubmit ==
    /\ \E numValue \in {ParseFloat(inputValue)} :
         IF AcceptsNumValue(numValue)
         THEN /\ inputEv' = [InputEvent("submit") EXCEPT
                               !.numValue = numValue,
                               !.onChange = <<numValue>>,
                               !.onSubmit = 1]
              /\ isSaved' = TRUE
              /\ UNCHANGED isError
         ELSE /\ inputEv' = [InputEvent("submit") EXCEPT
                               !.numValue = numValue]
              /\ isError' = TRUE
              /\ UNCHANGED isSaved
    /\ UNCHANGED inputValue
    /\ InputUnchanged

\* the timer of showSavedIndicator runs out, part_002:53
SavedIndicatorTimeout ==
    /\ isSaved
    /\ isSaved' = FALSE
    /\ inputEv' = InputEvent("timeout")
    /\ UNCHANGED <<inputValue, isError>>
    /\ InputUnchanged

InputNext ==
    \/ \E text \in InputTexts : HandleChange(text)
    \/ HandleSubmit
    \/ SavedIndicatorTimeout

\* useCurrencyData and CurrencyInput, each on its own
HookInputNext ==
    \/ (inputEv.op = "init" /\ HookNext)
    \/ (hookStarted = 0 /\ InputNext)

(***************************************************************************)
(* Part 6: useRateRefresher (src/unnamed/part_003)                         *)
(***************************************************************************)
\* ---- the interval timer: the ref, the timers that are active, the ids ----
TimerState ==
    [ ref |-> autoRefreshTimerRef, intervals |-> intervals,
      runs |-> effectRuns ]

\* clearInterval(id)
ClearInterval(t, id) == [t EXCEPT !.intervals = @ \ {id}]

\* The effect body, lines 72-106: clear the timer the ref holds, then
\* setInterval and keep the new id in the ref.
EffectSetup(t) ==
    LET t1 == IF t.ref # 0 THEN ClearInterval(t, t.ref) ELSE t
        id == t1.runs + 1
    IN  [t1 EXCEPT !.intervals = @ \cup {id}, !.ref = id, !.runs = id]

\* The function the effect returns, lines 109-114.
EffectCleanupKeepsTimer(t) == [t EXCEPT !.ref = 0]
EffectCleanup(t) ==
    IF t.ref # 0 THEN [ClearInterval(t, t.ref) EXCEPT !.ref = 0] ELSE t

SetTimerState(t) ==
    /\ autoRefreshTimerRef' = t.ref
    /\ intervals' = t.intervals
    /\ effectRuns' = t.runs

\* ---- the two refresh paths ----
\* handleRefresh (44-67) and the timer callback (77-106)
RefreshFns == {"handleRefresh", "tick"}
\* how the awaited refreshBybitRate() ends: resolved true or false, rejected
RefreshOutcomes == {"true", "false", "reject"}
InProgress == {"refreshing", "saving"}

\* ---- the props of a render, as far as the two paths read them ----
\* usdtNgnRate: number | null (0 stands for null as well: both are falsy)
RefresherRates == {Zero, Num(1000, 1), Num(1500, 1)}

\* cost prices calculated from a rate, {} when it cannot be priced
PricesAt(rate) ==
    IF Positive(rate)
    THEN [c \in {"USD"} |-> calculateUsdPrice(rate, DefaultUsdMargin)]
    ELSE NoRates

Props(rate, prices) == [usdtNgnRate |-> rate, costPrices |-> prices]
NoProps == Props(Zero, NoRates)
RenderProps ==
    {Props(r, PricesAt(q)) : r \in RefresherRates, q \in RefresherRates}

\* usdtNgnRate && Object.keys(costPrices).length > 0   (52, 89)
CanSave(p) == ~Falsy(p.usdtNgnRate) /\ DOMAIN p.costPrices # {}

\* the source passed to saveHistoricalRates (59, 96)
TriggerKindAlwaysAuto(fn) == "auto"
TriggerKind(fn) == IF fn = "tick" THEN "auto" ELSE "refresh"

\* the arguments of a saveHistoricalRates call (53-60, 90-97)
Snapshot(fn, p) ==
    [ source |-> TriggerKind(fn), usdtNgnRate |-> p.usdtNgnRate,
      costPrices |-> p.costPrices ]
NoSnapshot == [source |-> "none", usdtNgnRate |-> Zero, costPrices |-> NoRates]

\* After refreshBybitRate settled with o. canSave is the test
\* usdtNgnRate && Object.keys(costPrices).length > 0 on the props of the
\* render the function was created in. The timer callback catches a
\* rejection (103-105); handleBybitRateRefresh and handleRefresh do not.
AfterRefresh(fn, o, canSave) ==
    IF o = "reject"
    THEN IF fn = "tick" THEN "resolved" ELSE "rejected"
    ELSE IF o = "true" /\ canSave THEN "saving" ELSE "resolved"

\* After the awaited saveHistoricalRates settled: both paths catch what it
\* throws (63-65, 103-105) and log it.
AfterSaveUncaught(fn, threw) == IF threw THEN "rejected" ELSE "resolved"
AfterSave(fn, threw) == "resolved"

RefresherEvent(op, fn) ==
    [ op |-> op, fn |-> fn, outcome |-> "none", recalculated |-> FALSE,
      threw |-> FALSE, refreshedRate |-> Zero, snapshot |-> NoSnapshot ]

RefresherInit ==
    /\ refresherMounted = "no"
    /\ intervals = {}
    /\ autoRefreshTimerRef = 0
    /\ effectRuns = 0
    /\ refreshPc = [fn \in RefreshFns |-> "idle"]
    /\ closureProps = [fn \in RefreshFns |-> NoProps]
    /\ refresherEv = RefresherEvent("init", "none")

RefresherUnchanged ==
    UNCHANGED <<retryVars, vertoVars, fxVars, pricingVars, hookVars,
                inputVars>>

\* The component mounts: the effect runs for the first time.
RefresherMount ==
    /\ refresherMounted = "no"
    /\ refresherMounted' = "yes"
    /\ SetTimerState(EffectSetup(TimerState))
    /\ refresherEv' = RefresherEvent("mount", "none")
    /\ UNCHANGED <<refreshPc, closureProps>>
    /\ RefresherUnchanged

\* A dependency of the effect changed in a render: the cleanup of the
\* previous run, then the effect again.
DepsChange ==
    /\ refresherMounted = "yes"
    /\ effectRuns < MaxEffectRuns
    /\ SetTimerState(EffectSetup(EffectCleanup(TimerState)))
    /\ refresherEv' = RefresherEvent("deps", "none")
    /\ UNCHANGED <<refresherMounted, refreshPc, closureProps>>
    /\ RefresherUnchanged

\* The component unmounts: the cleanup of the last run.
RefresherUnmount ==
    /\ refresherMounted = "yes"
    /\ refresherMounted' = "gone"
    /\ SetTimerState(EffectCleanup(TimerState))
    /\ refresherEv' = RefresherEvent("unmount", "none")
    /\ UNCHANGED <<refreshPc, closureProps>>
    /\ RefresherUnchanged

\* An active interval timer fires: the callback, created in a render with
\* props p, runs up to its first await.
TimerFire(id, p) ==
    /\ id \in intervals
    /\ refreshPc["tick"] \notin InProgress
    /\ refreshPc' = [refreshPc EXCEPT !["tick"] = "refreshing"]
    /\ closureProps' = [closureProps EXCEPT !["tick"] = p]
    /\ refresherEv' = RefresherEvent("fire", "tick")
    /\ UNCHANGED <<refresherMounted, intervals, autoRefreshTimerRef,
                   effectRuns>>
    /\ RefresherUnchanged

\* The refresh button is clicked: the handleRefresh of the last render,
\* whose props are p, runs up to its first await.
HandleRefreshStart(p) ==
    /\ refresherMounted = "yes"
    /\ refreshPc["handleRefresh"] \notin InProgress
    /\ refreshPc' = [refreshPc EXCEPT !["handleRefresh"] = "refreshing"]
    /\ closureProps' = [closureProps EXCEPT !["handleRefresh"] = p]
    /\ refresherEv' = RefresherEvent("click", "handleRefresh")
    /\ UNCHANGED <<refresherMounted, intervals, autoRefreshTimerRef,
                   effectRuns>>
    /\ RefresherUnchanged

\* refreshBybitRate() settles for fn; when it resolves true the rate it
\* fetched, newRate, is the USDT/NGN rate from then on. The function goes
\* on to its next await, or to its end, with the props of its own closure.
RefreshBybitRateSettles(fn, o, newRate) ==
    /\ refreshPc[fn] = "refreshing"
    /\ (o = "true") = Positive(newRate)
    /\ refreshPc' = [refreshPc EXCEPT
                       ![fn] = AfterRefresh(fn, o, CanSave(closureProps[fn]))]
    /\ refresherEv' = [RefresherEvent("refreshed", fn) EXCEPT
                         !.outcome = o, !.recalculated = (o = "true"),
                         !.refreshedRate = newRate,
                         !.snapshot =
                            IF refreshPc'[fn] = "saving"
                            THEN Snapshot(fn, closureProps[fn])
                            ELSE NoSnapshot]
    /\ closureProps' = [closureProps EXCEPT
                          ![fn] = IF refreshPc'[fn] = "saving" THEN @
                                  ELSE NoProps]
    /\ UNCHANGED <<refresherMounted, intervals, autoRefreshTimerRef,
                   effectRuns>>
    /\ RefresherUnchanged

\* saveHistoricalRates(...) settles for fn.
SaveHistoricalRatesSettles(fn, threw) ==
    /\ refreshPc[fn] = "saving"
    /\ refreshPc' = [refreshPc EXCEPT ![fn] = AfterSave(fn, threw)]
    /\ closureProps' = [closureProps EXCEPT ![fn] = NoProps]
    /\ refresherEv' = [RefresherEvent("saved", fn) EXCEPT !.threw = threw]
    /\ UNCHANGED <<refresherMounted, intervals, autoRefreshTimerRef,
                   effectRuns>>
    /\ RefresherUnchanged

RefresherNext ==
    \/ RefresherMount
    \/ DepsChange
    \/ RefresherUnmount
    \/ \E id \in intervals, p \in RenderProps : TimerFire(id, p)
    \/ \E p \in RenderProps : HandleRefreshStart(p)
    \/ \E fn \in RefreshFns, o \in RefreshOutcomes, newRate \in RefresherRates :
          RefreshBybitRateSettles(fn, o, newRate)
    \/ \E fn \in RefreshFns, threw \in BOOLEAN :
          SaveHistoricalRatesSettles(fn, threw)

\* useRateRefresher, or one fetchBybitRateWithRetry call
RefresherRetryNext ==
    \/ refresherMounted = "no" /\ RetryNext
    \/ rpc = "idle" /\ RefresherNext
(***************************************************************************)
(* The timestamp functions of vertoRateLoader on their own                 *)
(***************************************************************************)
\* in-memory timestamps tried
ThrottleTimes == {0, 7, 70, 700}

\* texts tried as the stored item: numerals, numerals with leading zeros,
\* numerals followed or preceded by another character, the empty text
TextChars == {"0", "7", "x"}
StoredTexts == UNION {[1..n -> TextChars] : n \in 0..MaxTextLen}

\* Any in-memory timestamp and any stored item; nothing else has happened.
ThrottleInit ==
    /\ RetryInit
    /\ FxInit
    /\ PricingIdle
    /\ HookInit
    /\ InputInit
    /\ RefresherInit
    /\ now = StartTime
    /\ ticks = 0
    /\ lastSuccessfulVertoFxRates = DEFAULT_VERTOFX_RATES
    /\ lastApiAttemptTimestamp \in ThrottleTimes
    /\ lastApiSuccess = FALSE
    /\ storage \in {NoItem} \cup {Item(t) : t \in StoredTexts}
    /\ cache = [k \in CacheKeys |-> NoEntry]
    /\ cachedVertoFxRates = DEFAULT_VERTOFX_RATES
    /\ displayed = DEFAULT_VERTOFX_RATES
    /\ loads = [a \in LoadArgs |-> 0]
    /\ bgScheduled = 0
    /\ bgFetching = 0
    /\ orphans = 0
    /\ ev = Event("init", FALSE, FALSE)

ThrottleUnchanged ==
    /\ UNCHANGED <<now, ticks, lastSuccessfulVertoFxRates, lastApiSuccess,
                   cache, cachedVertoFxRates, displayed, loads, bgScheduled,
                   bgFetching, orphans>>
    /\ UNCHANGED <<retryVars, fxVars, appVars>>

\* getLastApiAttemptTimestamp() (also reached as getLastApiAttemptTime())
ReadTimestamp ==
    /\ lastApiAttemptTimestamp' =
         AfterGetLastApiAttemptTimestamp(Cur).lastApiAttemptTimestamp
    /\ storage' = storage
    /\ ev' = [Event("read", FALSE, FALSE) EXCEPT
                !.lastAttemptTime = GetLastApiAttemptTimestamp(Cur)]
    /\ ThrottleUnchanged

\* setLastApiAttemptTimestamp(ts)
WriteTimestamp(ts) ==
    /\ \E g \in {SetLastApiAttemptTimestamp(Cur, ts)} :
         /\ lastApiAttemptTimestamp' = g.lastApiAttemptTimestamp
         /\ storage' = g.storage
         /\ ev' = [Event("write", FALSE, FALSE) EXCEPT !.writes = g.writes]
    /\ ThrottleUnchanged

\* bypassRateLimitingCooldown()
BypassCooldown ==
    /\ \E g \in {BypassRateLimitingCooldown(Cur, now)} :
         /\ lastApiAttemptTimestamp' = g.lastApiAttemptTimestamp
         /\ storage' = g.storage
         /\ ev' = [Event("bypass", FALSE, FALSE) EXCEPT !.writes = g.writes]
    /\ ThrottleUnchanged

ThrottleNext ==
    \/ ReadTimestamp
    \/ \E ts \in ThrottleTimes : WriteTimestamp(ts)
    \/ BypassCooldown

(***************************************************************************)
(* Specifications                                                          *)
(***************************************************************************)
Init ==
    /\ RetryInit /\ VertoInit /\ FxInit
    /\ PricingIdle /\ HookInit /\ InputInit /\ RefresherInit

\* fetchBybitRateWithRetry alone
RetrySpec == Init /\ [][RetryNext]_vars

\* fetchBybitRateWithRetry with every step the code itself takes sooner or
\* later: the loop, the timers of the delay and of the timeout. When the
\* edge function or the database answers is up to them.
RetryLiveSpec ==
    /\ Init /\ [][RetryNext]_vars
    /\ WF_vars(RetryInvoke) /\ WF_vars(RetryExhausted)
    /\ WF_vars(RetryDelayElapsed) /\ WF_vars(AbortTimerFires)

\* loadVertoFxRates, its background refreshes and the clock
VertoSpec == Init /\ [][VertoNext]_vars

\* the timestamp functions over every in-memory value and stored text
ThrottleSpec == ThrottleInit /\ [][ThrottleNext]_vars

\* fetchFxRates and fetchExchangeRates alone
FxSpec == Init /\ [][FxNext]_vars

\* loadVertoFxRates, fetchVertoFXRates, fetchFxRates and fetchExchangeRates
ResolveSpec == Init /\ [][ResolveNext]_vars

\* the expiring cache under get, set and the clock
CacheSpec == Init /\ [][CacheNext]_vars

\* any arguments of the pricing functions; nothing else has happened
PricingInit ==
    /\ RetryInit /\ VertoInit /\ FxInit /\ HookInit /\ InputInit
    /\ RefresherInit
    /\ pricingArgs \in PricingArgs
    /\ pricingOut = NoPrice

\* the pricing functions over every argument tried
PricingSpec == PricingInit /\ [][PricingNext]_vars

\* useCurrencyData under calls of its functions, and CurrencyInput
HookSpec == Init /\ [][HookInputNext]_vars

\* useRateRefresher under mounts, dependency changes, timer ticks and
\* clicks, and fetchBybitRateWithRetry
RefresherSpec == Init /\ [][RefresherRetryNext]_vars

Next ==
    \/ RetryNext \/ VertoNext \/ ThrottleNext \/ FxNext \/ CacheNext
    \/ PricingNext \/ HookNext \/ InputNext \/ RefresherNext

Spec == Init /\ [][Next]_vars

(***************************************************************************)
(* Properties of fetchBybitRateWithRetry                                   *)
(***************************************************************************)
\* The attempts the call has seen settle, by index.
Settled == 1..Len(outcomes)
FirstUsable(k) ==
    /\ k \in Settled
    /\ outcomes[k].ok
    /\ \A i \in 1..(k - 1) : ~outcomes[i].ok

\* A response with no rate to use: success false, no traders, or a median
\* that is zero or negative.
Unusable(resp) ==
    ~resp.success \/ resp.total_traders = 0 \/ resp.median <= 0

\* C1: called with maxRetries = N >= 1, fetchBybitRateWithRetry invokes
\* getBybitP2PRate one invocation at a time; it has made exactly N
\* invocations when it returns after N failures and exactly k when attempt k
\* is the first usable one; nothing is invoked after a usable attempt or
\* after the N-th failure.
AttemptsAreSequentialAndBounded ==
    maxRetries >= 1 =>
      /\ inFlight \in {0, 1}
      /\ inFlight = 1 <=> rpc = "calling"
      /\ calls = Len(outcomes) + inFlight
      /\ calls <= maxRetries
      /\ \A i \in Settled : outcomes[i].ok => i = Len(outcomes) /\ inFlight = 0
      /\ rpc = "done" =>
           IF result.isNull
           THEN calls = maxRetries /\ \A i \in Settled : ~outcomes[i].ok
           ELSE FirstUsable(calls)

AttemptsWitness ==
    /\ rpc = "done"
    /\ maxRetries = 3
    /\ calls = 2
    /\ ~result.isNull
    /\ FirstUsable(2)

\* C2: a delay is started only after a failed attempt that is not the last
\* one allowed: the call has waited k-1 times when attempt k succeeds and
\* N-1 times when all N attempts fail, never after the final attempt.
DelayOnlyBetweenAttempts ==
    maxRetries >= 1 =>
      /\ waits = Cardinality({i \in Settled :
                                ~outcomes[i].ok /\ i < maxRetries})
      /\ rpc = "waiting" =>
           Len(outcomes) < maxRetries /\ ~outcomes[Len(outcomes)].ok
      /\ rpc = "done" => waits = calls - 1

DelayWitness ==
    /\ rpc = "done"
    /\ maxRetries = 3
    /\ result.isNull
    /\ calls = 3
    /\ waits = 2

\* C3: an attempt whose response has success false, zero traders or a
\* median that is zero or negative counts as failed: it takes one of the N
\* slots, its value is never the rate returned, and unless it was the last
\* slot the loop goes on to another attempt.
UnusableResponseIsFailedAttempt ==
    maxRetries >= 1 =>
      /\ \A i \in Settled : Unusable(outcomes[i].resp) => ~outcomes[i].ok
      /\ rpc \in {"saving", "done"} =>
           \A i \in Settled :
              Unusable(outcomes[i].resp) /\ i < maxRetries
                => i < Len(outcomes)
      /\ rpc = "done" /\ ~result.isNull =>
           /\ ~Unusable(outcomes[calls].resp)
           /\ result.rate = outcomes[calls].resp.median
           /\ result.rate > 0

UnusableWitness ==
    /\ rpc = "done"
    /\ ~result.isNull
    /\ Len(outcomes) = 3
    /\ outcomes[1].resp.success
    /\ outcomes[1].resp.total_traders > 0
    /\ outcomes[1].resp.median < 0
    /\ outcomes[2].resp.success
    /\ outcomes[2].resp.total_traders = 0

\* C4: the call returns the rate of the first usable attempt; when all N
\* attempts fail it returns rate = null together with the error of the last
\* attempt, not of an earlier one.
ReturnsFirstRateOrLastError ==
    rpc = "done" /\ maxRetries >= 1 =>
      IF result.isNull
      THEN /\ Len(outcomes) = maxRetries
           /\ result.error = outcomes[maxRetries].err
      ELSE \E k \in Settled :
              /\ FirstUsable(k)
              /\ result.rate = outcomes[k].resp.median

LastErrorWitness ==
    /\ rpc = "done"
    /\ maxRetries = 3
    /\ result.isNull
    /\ outcomes[1].err = "Request timed out"
    /\ outcomes[2].err = "Received invalid rate value (zero or negative)"
    /\ outcomes[3].err = "No traders found or empty response"
    /\ result.error = "No traders found or empty response"


\* C36: a getBybitP2PRate call does not outlast its timeout: once the
\* timer has fired the call returns (with success = false), so a
\* fetchBybitRateWithRetry call that is awaiting it always goes on.
CallBoundedByTimeout ==
    (rpc = "calling" /\ abortTimer.status = "fired") ~> (rpc # "calling")
(***************************************************************************)
(* Properties of loadVertoFxRates                                          *)
(***************************************************************************)
\* What the claims call things.
LastKnownGood == lastSuccessfulVertoFxRates
LastAttemptAt == GetLastApiAttemptTimestamp(Cur)
OuterEntryFresh == cache[OUTER_KEY].present /\ now < cache[OUTER_KEY].expiresAt
InnerEntryFresh == cache[INNER_KEY].present /\ now < cache[INNER_KEY].expiresAt
SomeRatePositive(r) == \E c \in DOMAIN r : r[c].buy > 0 \/ r[c].sell > 0
StructurallyValid(r) ==
    /\ DOMAIN r = Currencies
    /\ \A c \in Currencies : r[c].buy >= 0 /\ r[c].sell >= 0

\* C5 (as stated): when the live fetch of a call fails (the race rejects or
\* times out, or the upstream call ends without valid rates), the call
\* returns the last-known-good rates whenever an earlier fetch succeeded,
\* and the hardcoded default only when there is none.
FailedFetchReturnsLastKnownGood ==
    [][ /\ ( \/ ev'.op = "raceTimeout"
            \/ (ev'.op = "settle" /\ ev'.branch = "invalid") )
          => ev'.ret = LastKnownGood
        /\ (ev'.op = "settle" /\ ~ev'.innerLive)
          => ev'.ret \in {LastKnownGood, cachedVertoFxRates} ]_vars

\* C6: when the upstream call of a loadVertoFxRates call fails and neither
\* loadVertoFxRates nor fetchVertoFXRates holds a last-known-good value, the
\* call returns the hardcoded default, pushes the same value to the UI
\* setter, and that value has every currency with buy >= 0 and sell >= 0.
NoLastKnownGoodGivesDefault ==
    [][ ( /\ ev'.op \in {"start", "settle", "raceTimeout"}
          /\ ev'.branch # "pending"
          /\ ~ev'.innerLive
          /\ LastKnownGood = DEFAULT_VERTOFX_RATES
          /\ cachedVertoFxRates = DEFAULT_VERTOFX_RATES )
        => /\ ev'.ret = DEFAULT_VERTOFX_RATES
           /\ displayed' = DEFAULT_VERTOFX_RATES
           /\ StructurallyValid(ev'.ret) ]_vars

NoLastKnownGoodWitness ==
    /\ ev.op = "raceTimeout"
    /\ ev.branch = "error"
    /\ LastKnownGood = DEFAULT_VERTOFX_RATES
    /\ cachedVertoFxRates = DEFAULT_VERTOFX_RATES
    /\ ev.ret = DEFAULT_VERTOFX_RATES
    /\ displayed = DEFAULT_VERTOFX_RATES

\* C7 (as stated): whenever a fresh 'vertoRates' cache entry exists, a call
\* of loadVertoFxRates, mobile or not, returns the cached value at once,
\* with no network call and no throttle check.
FreshCacheServesEveryCaller ==
    [][ (ev'.op = "start" /\ OuterEntryFresh)
        => /\ ev'.branch = "cacheHit"
           /\ ev'.ret = cache[OUTER_KEY].value
           /\ ~ev'.net
           /\ ~ev'.throttleChecked ]_vars

\* C7 (amended): a mobile call that finds a fresh 'vertoRates' entry returns
\* the cached value from its synchronous part, with no fetch of its own and
\* no throttle check, and schedules one background refresh; a non-mobile
\* call never takes that path and always makes the throttle check; a call
\* that the throttle lets through while fetchVertoFXRates' own entry is
\* fresh gets that entry without a network request, and otherwise makes a
\* network request.
FreshCacheServesMobileCaller ==
    [][ ev'.op = "start" =>
          /\ (ev'.isMobile /\ OuterEntryFresh)
               => /\ ev'.branch = "cacheHit"
                  /\ ev'.ret = cache[OUTER_KEY].value
                  /\ displayed' = cache[OUTER_KEY].value
                  /\ ~ev'.attempted /\ ~ev'.net /\ ~ev'.throttleChecked
                  /\ loads' = loads
                  /\ bgScheduled' = bgScheduled + 1
          /\ ~ev'.isMobile
               => ev'.branch # "cacheHit" /\ ev'.throttleChecked
          /\ (ev'.attempted /\ InnerEntryFresh)
               => /\ ~ev'.net
                  /\ ev'.ret = cache[INNER_KEY].value
                  /\ loads' = loads
          /\ (ev'.attempted /\ ~InnerEntryFresh)
               => /\ ev'.net
                  /\ ev'.branch = "pending"
                  /\ PendingLoads' = PendingLoads + 1 ]_vars

FreshCacheWitness ==
    /\ ev.op = "start"
    /\ ev.isMobile
    /\ ev.branch = "cacheHit"
    /\ ev.ret = FormatRates(LivePayload(25))
    /\ displayed = ev.ret
    /\ bgScheduled = 1

\* C8: a call that is not forced and does not return from the 'vertoRates'
\* cache, made while now - lastAttemptAt <= 30000, starts no fetch and
\* returns (and pushes) the last-known-good rates, which are the default
\* when no fetch has succeeded yet.
CooldownSuppressesFetch ==
    [][ ( /\ ev'.op = "start"
          /\ ~ev'.force
          /\ ev'.branch # "cacheHit"
          /\ now - LastAttemptAt <= COOLDOWN_MS )
        => /\ ~ev'.attempted /\ ~ev'.net /\ ev'.settled = 0
           /\ loads' = loads
           /\ bgScheduled' = bgScheduled
           /\ ev'.ret = LastKnownGood
           /\ displayed' = LastKnownGood
           /\ lastSuccessfulVertoFxRates' = LastKnownGood ]_vars

CooldownWitness ==
    /\ ev.op = "start"
    /\ ~ev.force
    /\ ev.branch = "cooldown"
    /\ now - ev.lastAttemptTime = COOLDOWN_MS
    /\ ev.ret = FormatRates(LivePayload(10))
    /\ LastKnownGood = ev.ret

\* C9: when the fetch of a foreground call resolves with valid rates, then
\* on return the 'vertoRates' entry holds them, the last-known-good equals
\* them, the throttle timestamp (in memory and in localStorage) is the
\* current time, and they are the value returned and pushed.
ValidFetchUpdatesAllState ==
    ( /\ ev.op \in {"start", "settle"}
      /\ ev.settled = 1
      /\ SomeRatePositive(ev.fetched) )
    => /\ ev.branch = "live"
       /\ ev.ret = ev.fetched
       /\ displayed = ev.fetched
       /\ LastKnownGood = ev.fetched
       /\ cache[OUTER_KEY].present
       /\ cache[OUTER_KEY].value = ev.fetched
       /\ cache[OUTER_KEY].expiresAt =
            now + (IF ev.isMobile THEN MOBILE_CACHE_TTL_MS
                                  ELSE DESKTOP_CACHE_TTL_MS)
       /\ lastApiAttemptTimestamp = now
       /\ storage.present
       /\ ParseInt(storage.text) = [isNaN |-> FALSE, value |-> now]

ValidFetchWitness ==
    /\ ev.op = "settle"
    /\ ev.innerLive
    /\ ev.fetched = FormatRates(LivePayload(25))
    /\ LastKnownGood = ev.fetched
    /\ cache[OUTER_KEY].value = ev.fetched
    /\ lastApiAttemptTimestamp = now

\* C10 (as stated): the attempt timestamp is written exactly once by a step
\* that ends a network attempt, foreground or background, whatever the
\* outcome, and is not written by any step that ends none.
TimestampOnlyPerNetworkAttempt ==
    Len(ev.writes) =
      (IF ev.settled = 1 /\ ev.op \notin {"start", "bgStart"} THEN 1 ELSE 0)

\* C10 (amended): setLastApiAttemptTimestamp(Date.now()) runs exactly once
\* for each fetchVertoFXRates call made by loadVertoFxRates, when the race
\* awaiting it resolves or times out (foreground or background, answered by
\* the network or by the fetcher's own cache), whatever the outcome; a
\* forced call in addition writes
\* Date.now() - 60000 once, first, whether or not it then fetches; nothing
\* else writes the timestamp.
TimestampPerFetchAndPerForce ==
    LET bypass == IF ev.op = "start" /\ ev.force
                  THEN <<now - BYPASS_OFFSET_MS>> ELSE <<>>
        ended  == IF ev.settled = 1 THEN <<now>> ELSE <<>>
    IN /\ ev.writes = bypass \o ended
       /\ ev.settled \in {0, 1}
       /\ ev.settled = 1 =>
            /\ lastApiAttemptTimestamp = now
            /\ storage = Item(NumberToString(now))

TimestampWitness ==
    /\ ev.op = "raceTimeout"
    /\ ev.settled = 1
    /\ ev.writes = <<now>>
    /\ lastApiAttemptTimestamp = now

(***************************************************************************)
(* Properties of loadVertoFxRates: zero data, throttle, overlapping calls  *)
(***************************************************************************)
AllZero(r) == \A c \in DOMAIN r : r[c].buy = 0 /\ r[c].sell = 0

\* The rate sets the program holds or has just handed out.
HeldRates ==
    {lastSuccessfulVertoFxRates, cachedVertoFxRates, displayed}
    \cup {cache[k].value : k \in {j \in CacheKeys : cache[j].present}}
    \cup (IF ev.op \in {"start", "settle", "raceTimeout"}
              /\ ev.branch \notin {"none", "pending"}
          THEN {ev.ret} ELSE {})

\* The upstream call of the step just taken resolved with all-zero pairs.
ZeroFetched ==
    /\ ev.upstream = "resolve"
    /\ DOMAIN ev.formatted = Currencies
    /\ AllZero(ev.formatted)

RecordedAttempts ==
    (IF lastApiAttemptTimestamp # 0 THEN {lastApiAttemptTimestamp} ELSE {})
    \cup (IF storage.present /\ storage.text # <<>>
             /\ ~ParseInt(storage.text).isNaN
          THEN {ParseInt(storage.text).value} ELSE {})

\* C12: whenever a call reaches the throttle decision, it decides to attempt
\* when forceRefresh is set, when no earlier attempt is on record, and when
\* more than 30000 ms have passed since the latest recorded attempt; a
\* non-forced call at most 30000 ms after a recorded attempt decides not to.
AttemptDecision ==
    [][ (ev'.op = "start" /\ ev'.throttleChecked) =>
          /\ ev'.force => ev'.attempted
          /\ RecordedAttempts = {} => ev'.attempted
          /\ (\A ts \in RecordedAttempts : now - ts > COOLDOWN_MS)
                => ev'.attempted
          /\ (~ev'.force /\ \E ts \in RecordedAttempts :
                                 now - ts <= COOLDOWN_MS)
                => ~ev'.attempted ]_vars

AttemptDecisionWitness ==
    /\ ev.op = "start"
    /\ ev.throttleChecked
    /\ ~ev.force
    /\ ev.attempted
    /\ ev.lastAttemptTime > 0
    /\ now - ev.lastAttemptTime > COOLDOWN_MS
    /\ ticks = 1

\* The timestamp localStorage holds (the number its leading digits spell),
\* 0 when it holds none.
StoredAttempt ==
    IF storage.present THEN DigitPrefixValue(storage.text, 0) ELSE 0

\* C13 (as stated): over loadVertoFxRates calls, forced or not, and the
\* timestamp reads and cooldown bypasses they make, the time of the last
\* attempt never decreases, neither the in-memory value (a page reload
\* apart), nor the stored one, nor the larger of the two.
TimestampNeverDecreases ==
    [][ (storage' # storage
         \/ lastApiAttemptTimestamp' # lastApiAttemptTimestamp) =>
          \A old \in {StoredAttempt}, new \in {StoredAttempt'} :
            /\ Max(lastApiAttemptTimestamp', new)
                 >= Max(lastApiAttemptTimestamp, old)
            /\ new >= old
            /\ ev'.op # "restart" =>
                 lastApiAttemptTimestamp' >= lastApiAttemptTimestamp ]_vars

\* C13 (amended): every step other than the start of a forced call leaves
\* the time of the last attempt at least as large as it was; a forced call
\* sets it, in memory and in localStorage, to the current time less 60000 ms
\* whatever was recorded, and to the current time when the call completes
\* its fetch before returning.
TimestampDecreasesOnlyByBypass ==
    [][ /\ ( /\ ~(ev'.op = "start" /\ ev'.force)
             /\ \/ storage' # storage
                \/ lastApiAttemptTimestamp' # lastApiAttemptTimestamp ) =>
             \A old \in {StoredAttempt}, new \in {StoredAttempt'} :
               /\ Max(lastApiAttemptTimestamp', new)
                    >= Max(lastApiAttemptTimestamp, old)
               /\ new >= old
               /\ ev'.op # "restart" =>
                    lastApiAttemptTimestamp' >= lastApiAttemptTimestamp
        /\ (ev'.op = "start" /\ ev'.force) =>
             /\ lastApiAttemptTimestamp' =
                  (IF ev'.settled = 1 THEN now ELSE now - BYPASS_OFFSET_MS)
             /\ StoredAttempt' = lastApiAttemptTimestamp' ]_vars

\* A forced call has just put the timestamp back by 60000 ms although a
\* fetch was recorded at the current time.
TimestampDecreasedWitness ==
    /\ ev.op = "start"
    /\ ev.force
    /\ ev.settled = 0
    /\ ticks = 0
    /\ lastSuccessfulVertoFxRates # DEFAULT_VERTOFX_RATES
    /\ lastApiAttemptTimestamp = now - BYPASS_OFFSET_MS
    /\ StoredAttempt = now - BYPASS_OFFSET_MS

\* ---- getLastApiAttemptTimestamp on its own ----
RECURSIVE Pow10(_)
Pow10(k) == IF k = 0 THEN 1 ELSE 10 * Pow10(k - 1)

\* how many characters at the front of text are decimal digits
LeadingDigits(text) ==
    CHOOSE k \in 0..Len(text) :
        /\ \A i \in 1..k : text[i] \in {"0", "7"}
        /\ k < Len(text) => text[k + 1] \notin {"0", "7"}

RECURSIVE SpelledValue(_, _)
SpelledValue(text, k) ==
    IF k = 0 THEN 0
    ELSE (IF text[k] = "7" THEN 7 ELSE 0) * Pow10(LeadingDigits(text) - k)
         + SpelledValue(text, k - 1)

\* the stored item spells a number (at least one leading digit)
StoredIsNumber == storage.present /\ LeadingDigits(storage.text) > 0
StoredNumber == SpelledValue(storage.text, LeadingDigits(storage.text))

\* C14: getLastApiAttemptTimestamp returns the larger of the in-memory
\* timestamp and the number stored in localStorage, and the in-memory
\* timestamp when nothing is stored or the stored text is no number.
ReadReturnsLargerTimestamp ==
    [][ ev'.op = "read" =>
          /\ StoredIsNumber =>
               /\ ev'.lastAttemptTime >= lastApiAttemptTimestamp
               /\ ev'.lastAttemptTime >= StoredNumber
               /\ ev'.lastAttemptTime \in
                    {lastApiAttemptTimestamp, StoredNumber}
          /\ ~StoredIsNumber =>
               ev'.lastAttemptTime = lastApiAttemptTimestamp ]_vars

\* A read found the stored number smaller and returned the in-memory value.
ReadLargerWitness ==
    /\ ev.op = "read"
    /\ storage = Item(<<"7", "0">>)
    /\ ev.lastAttemptTime = 700
    /\ lastApiAttemptTimestamp = 700

\* C15: when localStorage holds an attempt recorded at time t and the
\* in-memory timestamp has been reset to 0 by a reload, a non-forced call at
\* any time up to t + 30000 ms neither fetches nor schedules a fetch: it
\* takes the cooldown branch.
ThrottleSurvivesRestart ==
    [][ ( /\ ev'.op = "start"
          /\ ~ev'.force
          /\ lastApiAttemptTimestamp = 0
          /\ StoredAttempt > 0
          /\ now <= StoredAttempt + COOLDOWN_MS )
        => /\ ev'.branch = "cooldown"
           /\ ~ev'.attempted /\ ~ev'.net
           /\ loads' = loads
           /\ bgScheduled' = bgScheduled
           /\ Active' = Active
           /\ lastApiAttemptTimestamp' = StoredAttempt ]_vars

\* After a reload a non-forced mobile call, made exactly 30000 ms after the
\* stored attempt, was held back by the stored timestamp alone.
ThrottleSurvivesRestartWitness ==
    /\ ev.op = "start"
    /\ ~ev.force
    /\ ev.isMobile
    /\ ev.memoryBefore = 0
    /\ ev.branch = "cooldown"
    /\ ev.lastAttemptTime = StoredAttempt
    /\ now = StoredAttempt + COOLDOWN_MS

\* Non-forced calls whose network request is still awaited.
NonForcedPending == loads[Args(FALSE, FALSE)] + loads[Args(TRUE, FALSE)]

\* C16 (as stated): a non-forced call that starts while the network request
\* of another non-forced call is in flight, or at most 30000 ms after the
\* last recorded attempt, sends no network request of its own: it returns
\* at once with a cached or last-known-good value.
OverlappingCallsShareOneAttempt ==
    [][ ( /\ ev'.op = "start"
          /\ ~ev'.force
          /\ \/ NonForcedPending > 0
             \/ now - LastAttemptAt <= COOLDOWN_MS )
        => /\ ~ev'.net
           /\ ev'.branch # "pending"
           /\ NonForcedPending' = NonForcedPending ]_vars

\* C17 (as stated): when the race timer of a call fired first, the response
\* that the abandoned fetch receives afterwards changes nothing: no cache
\* entry, neither last-known-good value, no displayed rate.
LateResponseDiscarded ==
    [][ (ev'.op = "orphanSettle" /\ ev'.upstream = "resolve") =>
          /\ cache' = cache
          /\ lastSuccessfulVertoFxRates' = lastSuccessfulVertoFxRates
          /\ cachedVertoFxRates' = cachedVertoFxRates
          /\ displayed' = displayed ]_vars

\* Fetches started and not yet ended, whoever awaits them.
FetchesInFlight == PendingLoads + bgFetching + orphans

\* C19: a mobile call that finds a fresh 'vertoRates' entry returns that
\* entry's value in the step in which it is called, before any fetch is
\* started: the step starts no fetch and only schedules a background
\* refresh. The fetch starts in a later step of the background task, and the
\* steps of that task hand nothing back to a caller, so the value returned
\* is the same whatever the fetch brings.
MobileCachedValueReturnedFirst ==
    [][ /\ (ev'.op = "start" /\ ev'.isMobile /\ OuterEntryFresh) =>
             /\ ev'.branch = "cacheHit"
             /\ ev'.ret = cache[OUTER_KEY].value
             /\ ~ev'.net
             /\ FetchesInFlight' = FetchesInFlight
             /\ bgScheduled' = bgScheduled + 1
             /\ cache' = cache
             /\ lastSuccessfulVertoFxRates' = lastSuccessfulVertoFxRates
        /\ bgFetching' > bgFetching =>
             /\ ev'.op = "bgStart"
             /\ bgScheduled' = bgScheduled - 1
        /\ ev'.op \in {"bgStart", "bgSettle", "bgRaceTimeout"} =>
             /\ ev'.ret = EmptyRates
             /\ loads' = loads ]_vars

\* A non-forced mobile call has just returned the cached rates; its refresh
\* is scheduled and nothing is in flight.
MobileCachedValueWitness ==
    /\ ev.op = "start"
    /\ ev.isMobile
    /\ ~ev.force
    /\ ev.branch = "cacheHit"
    /\ ev.ret = FormatRates(LivePayload(10))
    /\ cache[OUTER_KEY].value = ev.ret
    /\ bgScheduled = 1
    /\ FetchesInFlight = 0
(***************************************************************************)
(* Properties of the rate-resolution functions as a group                  *)
(***************************************************************************)
\* A loadVertoFxRates call has returned in the step just taken.
LoadReturned ==
    /\ ev.op \in {"start", "settle", "raceTimeout"}
    /\ ev.branch \notin {"none", "pending"}

\* A fetchVertoFXRates call has resolved in the step just taken.
InnerResolved == ev.op \in {"settle", "orphanSettle", "bgSettle"}

\* A fetchFxRates or fetchExchangeRates call has ended in the step just taken.
FxEnded == fxOut.op \in {"start", "settle"} /\ fxOut.kind # "none"

ValidFxRates(r) == DOMAIN r = Currencies /\ \A c \in Currencies : r[c] > 0

\* loadVertoFxRates and fetchVertoFXRates end with a complete rate set
\* whatever the upstream did.
VertoFailuresAbsorbed ==
    /\ LoadReturned => StructurallyValid(ev.ret) /\ SomeRatePositive(ev.ret)
    /\ InnerResolved =>
         StructurallyValid(ev.fetched) /\ SomeRatePositive(ev.fetched)

\* C18 (as stated): whatever the upstream does, loadVertoFxRates,
\* fetchVertoFXRates, fetchFxRates and fetchExchangeRates end with a valid
\* rate value and never by throwing.
NoResolverThrows ==
    /\ VertoFailuresAbsorbed
    /\ FxEnded => fxOut.kind = "value" /\ ValidFxRates(fxOut.value)

\* C18 (amended): loadVertoFxRates and fetchVertoFXRates always end with a
\* valid rate set; fetchExchangeRates and fetchFxRates end with valid rates
\* when a cache or a well-formed response supplies them, and throw, after a
\* warning toast, when the request is rejected, times out or is answered
\* without data.
OnlyVertoResolversAbsorbFailures ==
    /\ VertoFailuresAbsorbed
    /\ FxEnded =>
         /\ fxOut.kind \in {"value", "throw"}
         /\ fxOut.kind = "value" => ValidFxRates(fxOut.value)
         /\ fxOut.kind = "throw" <=>
              (fxOut.op = "settle" /\ fxOut.upstream # "data")
         /\ fxOut.kind = "throw" => fxOut.toast

\* fetchFxRates has thrown because its request timed out.
FetchFxRatesThrowsWitness ==
    /\ fxOut.op = "settle"
    /\ fxOut.fn = "fetchFxRates"
    /\ fxOut.upstream = "timeout"
    /\ fxOut.kind = "throw"
    /\ ~CacheFresh(fxCache, FX_RATES_CACHE_KEY, fxClock)

\* C20: get(k) at a time at or after the entry's expiresAt returns absent
\* and leaves no entry under k; get(k) before it returns the stored value
\* and changes nothing; set(k, v, ttl) replaces whatever is under k by v
\* expiring ttl after the current time and touches no other key. Hence after
\* a set, get returns exactly the new value until that time and never later.
CacheNeverServesExpired ==
    [][ /\ fxOut'.op = "get" =>
             /\ ( /\ fxCache[fxOut'.fn].present
                  /\ fxClock >= fxCache[fxOut'.fn].expiresAt )
                  => /\ fxOut'.kind = "absent"
                     /\ ~fxCache'[fxOut'.fn].present
             /\ ( /\ fxCache[fxOut'.fn].present
                  /\ fxClock < fxCache[fxOut'.fn].expiresAt )
                  => /\ fxOut'.kind = "value"
                     /\ fxOut'.value = fxCache[fxOut'.fn].value
                     /\ fxCache' = fxCache
             /\ ~fxCache[fxOut'.fn].present
                  => fxOut'.kind = "absent" /\ fxCache' = fxCache
             /\ \A k \in FxKeys \ {fxOut'.fn} : fxCache'[k] = fxCache[k]
        /\ fxOut'.op = "set" =>
             /\ fxCache'[fxOut'.fn].present
             /\ fxCache'[fxOut'.fn].value = fxOut'.value
             /\ fxCache'[fxOut'.fn].expiresAt = fxClock + fxOut'.ttl
             /\ \A k \in FxKeys \ {fxOut'.fn} : fxCache'[k] = fxCache[k]
      ]_vars

\* A get made exactly at expiresAt found the entry, returned absent and
\* dropped it.
CacheExpiredWitness ==
    /\ fxOut.op = "get"
    /\ fxOut.kind = "absent"
    /\ fxOut.dropped
    /\ ~fxCache[fxOut.fn].present
    /\ fxClock = StartTime + FX_RATES_CACHE_TTL_MS
(***************************************************************************)
(* Properties of the pricing functions and of useCurrencyData              *)
(***************************************************************************)
\* a number that is neither NaN nor an infinity
Finite(x) == x.kind = "num"

\* v = b * (1 + m/100), over the fractions' numerators and denominators
IsMarkedUp(v, b, m) ==
    /\ Finite(v)
    /\ v.n * 100 * b.d * m.d = v.d * b.n * (100 * m.d + m.n)

\* v = (b * (1 - f)) / x * (1 + m/100), as v * x * 100 =
\* b * (1 - f) * (100 + m)
IsConverted(v, b, x, m, f) ==
    /\ Finite(v)
    /\ Mul(Mul(v, x), Hundred)
         = Mul(Mul(b, Sub(One, f)), Add(Hundred, m))

\* C21: calculateUsdPrice(baseRate, marginPercent) is
\* baseRate * (1 + marginPercent/100) for every positive base rate and
\* every margin; calculateUsdPrice(1000, 2.5) is 1025.
UsdPriceIsMarkedUpBase ==
    (pricingOut.fn = "calculateUsdPrice"
       /\ Finite(pricingArgs.usdtNgnRate) /\ pricingArgs.usdtNgnRate.n > 0)
    => /\ IsMarkedUp(pricingOut.value, pricingArgs.usdtNgnRate,
                     pricingArgs.margin)
       /\ (pricingArgs.usdtNgnRate = Num(1000, 1)
             /\ pricingArgs.margin = Num(5, 2))
          => pricingOut.value = [kind |-> "num", n |-> 1025, d |-> 1]

UsdPriceWitness ==
    /\ pricingOut.fn = "calculateUsdPrice"
    /\ pricingArgs.usdtNgnRate = Num(1000, 1)
    /\ pricingArgs.margin = Num(5, 2)
    /\ pricingOut.value = [kind |-> "num", n |-> 1025, d |-> 1]

\* C22: calculateOtherCurrencyPrice(baseRate, fxRate, marginPercent, fee)
\* is (baseRate * (1 - fee)) / fxRate * (1 + marginPercent/100) for every
\* positive base rate and non-zero FX rate, (1000, 0.92, 3, 0.001) giving
\* (1000 * 0.999 / 0.92) * 1.03; a calculateAllCostPrices that passes its
\* input checks prices every non-USD currency of fxRates with it and the
\* fee 0.001.
OtherPriceIsConvertedBase ==
    /\ (pricingOut.fn = "calculateOtherCurrencyPrice"
          /\ Finite(pricingArgs.usdtNgnRate) /\ pricingArgs.usdtNgnRate.n > 0
          /\ Finite(pricingArgs.currencyFxRate)
          /\ pricingArgs.currencyFxRate.n # 0)
       => /\ IsConverted(pricingOut.value, pricingArgs.usdtNgnRate,
                         pricingArgs.currencyFxRate, pricingArgs.margin,
                         pricingArgs.usdtToUsdFee)
          /\ (/\ pricingArgs.usdtNgnRate = Num(1000, 1)
              /\ pricingArgs.currencyFxRate = Num(92, 100)
              /\ pricingArgs.margin = Num(3, 1)
              /\ pricingArgs.usdtToUsdFee = Num(1, 1000))
             => pricingOut.value
                  = [kind |-> "num", n |-> 999 * 103, d |-> 92]
    /\ (pricingOut.fn = "calculateAllCostPrices" /\ pricingOut.passed)
       => \A c \in pricingArgs.fxKeys \ {"USD"} :
            /\ c \in DOMAIN pricingOut.costPrices
            /\ \E x \in {IF c = "EUR" THEN pricingArgs.currencyFxRate
                         ELSE Num(79, 100)} :
                 IF Finite(x) /\ x.n # 0
                 THEN IsConverted(pricingOut.costPrices[c],
                                  pricingArgs.usdtNgnRate, x,
                                  pricingArgs.margin, Num(1, 1000))
                 ELSE pricingOut.costPrices[c] = Zero

OtherPriceWitness ==
    /\ pricingOut.fn = "calculateOtherCurrencyPrice"
    /\ pricingArgs.usdtNgnRate = Num(1000, 1)
    /\ pricingArgs.currencyFxRate = Num(92, 100)
    /\ pricingArgs.margin = Num(3, 1)
    /\ pricingArgs.usdtToUsdFee = Num(1, 1000)
    /\ pricingOut.value = [kind |-> "num", n |-> 999 * 103, d |-> 92]

\* C23: the pricing functions return 0 whenever the FX rate is zero or the
\* base rate is zero or negative: calculateUsdPrice for such a base rate,
\* calculateOtherCurrencyPrice for such a base rate or a zero FX rate.
UnpriceableIsZero ==
    /\ (pricingOut.fn = "calculateUsdPrice"
          /\ Finite(pricingArgs.usdtNgnRate)
          /\ pricingArgs.usdtNgnRate.n <= 0)
       => pricingOut.value = Zero
    /\ (pricingOut.fn = "calculateOtherCurrencyPrice"
          /\ \/ (Finite(pricingArgs.usdtNgnRate)
                   /\ pricingArgs.usdtNgnRate.n <= 0)
             \/ pricingArgs.currencyFxRate = Zero)
       => pricingOut.value = Zero
(***************************************************************************)
(* Properties of useCurrencyData and CurrencyInput                         *)
(***************************************************************************)
\* the call in progress with the given id
CallOf(id) ==
    CHOOSE c \in {hookCalls[i] : i \in 1..Len(hookCalls)} : c.id = id

\* the values read by the calculateAllCostPrices that the step called: those
\* of the current render when called from outside, else those of the render
\* in which the calling loadAllData or updateUsdtRate was called
UsedRender ==
    IF hookEv'.op = "call" THEN Render ELSE CallOf(hookEv'.id).render

\* NaN, zero or negative
NotAPositiveNumber(x) == x.kind = "nan" \/ x.n <= 0

\* C24: every recalculation by calculateAllCostPrices that passes its input
\* checks replaces the whole cost-price set at once: the new keys are USD
\* and the non-USD currencies of fxRates, and previousCostPrices becomes
\* the set that was current immediately before the recalculation.
RecalculationReplacesWholeSet ==
    [][(hookEv'.calculated /\ PassesInputChecks(UsedRender))
       => /\ DOMAIN costPrices' = {"USD"} \cup (DOMAIN fxRates \ {"USD"})
          /\ previousCostPrices' = costPrices]_vars

\* C25: a manually entered rate that is NaN, zero or negative is rejected
\* before any state change: updateUsdtRate leaves usdtNgnRate, costPrices,
\* previousCostPrices and lastUpdated as they are, calls no saving service
\* and starts nothing that would; handleSubmit calls neither onChange nor
\* onSubmit.
InvalidRateIsRejected ==
    [][/\ (/\ hookEv'.op = "start"
           /\ hookEv'.fn = "updateUsdtRate"
           /\ NotAPositiveNumber(hookEv'.rate))
          => /\ UNCHANGED <<usdtNgnRate, costPrices, previousCostPrices,
                            lastUpdated>>
             /\ hookEv'.saved = {}
             /\ hookCalls' = hookCalls
       /\ (inputEv'.op = "submit" /\ NotAPositiveNumber(inputEv'.numValue))
          => /\ inputEv'.onChange = <<>>
             /\ inputEv'.onSubmit = 0]_vars

InvalidRateWitness ==
    /\ hookEv.op = "start"
    /\ hookEv.fn = "updateUsdtRate"
    /\ hookEv.rate = Num(-1000, 1)
    /\ hookEv.rejected
    /\ usdtNgnRate # Zero
    /\ lastUpdated # 0

\* C30: when loadAllData completes without error having loaded a positive
\* USDT/NGN rate, a non-empty FX rate set and margin settings, costPrices
\* is the price set computed from the rate and the FX rates that call
\* loaded.
LoadAllDataPricesWhatItLoaded ==
    [][(/\ hookEv'.fn = "loadAllData"
        /\ hookEv'.ended = "ok"
        /\ Positive(CallOf(hookEv'.id).usdtRate)
        /\ DOMAIN CallOf(hookEv'.id).rates # {}
        /\ CallOf(hookEv'.id).margins.present)
       => \A c \in {CallOf(hookEv'.id)} :
            costPrices' =
              NewCostPrices([usdtNgnRate |-> c.usdtRate, fxRates |-> c.rates],
                            c.margins.usd_margin,
                            c.margins.other_currencies_margin)]_vars

\* ---------------------------------------------------------------------------
\* Claims about the notifications and the last-known-good value of
\* loadVertoFxRates (checked in VertoSpec)
\* ---------------------------------------------------------------------------

\* The step described by the event e ended a live attempt of a foreground
\* loadVertoFxRates call without a validated upstream response: the race
\* timer fired, or the upstream call was rejected, timed out or delivered
\* a payload without a positive rate.
FailedAttempt(e) ==
    \/ e.op = "raceTimeout"
    \/ e.op = "settle" /\ ~e.innerLive

\* The step described by the event e ended a non-forced foreground call
\* with a validated upstream response.
NonForcedLiveSuccess(e) ==
    e.op = "settle" /\ ~e.force /\ e.innerLive /\ e.branch = "live"

Notified(e, kinds) == \E i \in DOMAIN e.toasts : e.toasts[i] \in kinds

\* C26: a failed live attempt of loadVertoFxRates shows a warning or an
\* error notification, and a non-forced call that fetches successfully
\* right after a failed attempt shows a success notification.
FailureAndRecoveryAreNotified ==
    [][ /\ FailedAttempt(ev') => Notified(ev', {"warning", "error"})
        /\ (FailedAttempt(ev) /\ ~lastApiSuccess /\ NonForcedLiveSuccess(ev'))
              => Notified(ev', {"success"}) ]_vars

\* C29: lastSuccessfulVertoFxRates changes only to the formatted rates of a
\* validated upstream response (delivered in this step, or served from the
\* cache entry that fetchVertoFXRates wrote for one), never to a value that
\* fetchVertoFXRates handed back after its own failure; a page reload
\* starts the module again.
LastKnownGoodOnlyFromLiveResponse ==
    [][ lastSuccessfulVertoFxRates' # lastSuccessfulVertoFxRates
          => \/ ev'.op = "restart"
             \/ ev'.op \in {"settle", "bgSettle"} /\ ev'.innerLive
                  /\ lastSuccessfulVertoFxRates' = ev'.formatted
             \/ ev'.op \in {"start", "bgStart"} /\ InnerEntryFresh
                  /\ lastSuccessfulVertoFxRates' = cache[INNER_KEY].value ]_vars

\* ---------------------------------------------------------------------------
\* Claims about useRateRefresher (checked in RefresherSpec)
\* ---------------------------------------------------------------------------

\* C27: at most one auto-refresh interval timer is active at any time,
\* whatever dependency changes re-ran the effect, and it is the one the ref
\* holds; after the unmount none is active, and a timer callback starts
\* only while the component is mounted.
AtMostOneIntervalTimer ==
    /\ Cardinality(intervals) <= 1
    /\ intervals \subseteq {autoRefreshTimerRef}
    /\ refresherMounted = "gone" => intervals = {}
    /\ refresherEv.op = "fire" => refresherMounted = "yes"

\* The effect ran three times or more and the component has unmounted.
TimerTornDownWitness ==
    /\ refresherMounted = "gone"
    /\ effectRuns >= 3
    /\ refreshPc["tick"] = "resolved"

\* C28: when saveHistoricalRates throws, handleRefresh and the timer
\* callback still complete normally, and when saveBybitRate fails
\* fetchBybitRateWithRetry still returns the rate it fetched.
SnapshotFailureNotSurfaced ==
    /\ (refresherEv.op = "saved" /\ refresherEv.threw)
          => refreshPc[refresherEv.fn] = "resolved"
    /\ (rpc = "done" /\ saveOutcome = "failed")
          => /\ ~result.isNull
             /\ result.error = ""
             /\ result.rate = outcomes[Len(outcomes)].resp.median

\* handleRefresh has completed although its saveHistoricalRates threw.
SnapshotFailureWitness ==
    /\ refresherEv.op = "saved"
    /\ refresherEv.fn = "handleRefresh"
    /\ refresherEv.threw
    /\ refreshPc["handleRefresh"] = "resolved"

\* C32: saveHistoricalRates is called only in the step in which
\* refreshBybitRate resolved true, with source 'refresh' from handleRefresh
\* and 'auto' from the timer callback; a refresh that resolved false or
\* rejected leads to no calculateAllCostPrices call and to no snapshot.
SnapshotOnlyAfterSuccessWithMatchingKind ==
    /\ refresherEv.snapshot.source # "none"
          => /\ refresherEv.op = "refreshed"
             /\ refresherEv.outcome = "true"
             /\ refresherEv.fn = "handleRefresh"
                   => refresherEv.snapshot.source = "refresh"
             /\ refresherEv.fn = "tick"
                   => refresherEv.snapshot.source = "auto"
    /\ (refresherEv.op = "refreshed" /\ refresherEv.outcome # "true")
          => /\ ~refresherEv.recalculated
             /\ refresherEv.snapshot = NoSnapshot
             /\ refreshPc[refresherEv.fn] # "saving"

\* A manual refresh has succeeded and handleRefresh has called
\* saveHistoricalRates with source 'refresh'.
ManualSnapshotWitness ==
    /\ refresherEv.op = "refreshed"
    /\ refresherEv.fn = "handleRefresh"
    /\ refresherEv.outcome = "true"
    /\ refresherEv.snapshot.source = "refresh"
    /\ refreshPc["handleRefresh"] = "saving"

\* C33: the snapshot handed to saveHistoricalRates after a successful
\* refresh holds the rate that refresh fetched and the cost prices
\* calculated from that rate.
SnapshotHoldsRefreshedValues ==
    refresherEv.snapshot.source # "none"
       => /\ refresherEv.snapshot.usdtNgnRate = refresherEv.refreshedRate
          /\ refresherEv.snapshot.costPrices
                = PricesAt(refresherEv.refreshedRate)

\* ---------------------------------------------------------------------------
\* Further properties of useCurrencyData (checked in HookSpec)
\* ---------------------------------------------------------------------------

\* the step is one of the updateUsdtRate call that was at pc before it
UpdateStepFrom(pc) ==
    /\ hookEv'.op = "settle"
    /\ hookEv'.fn = "updateUsdtRate"
    /\ CallOf(hookEv'.id).pc = pc

\* rates the database can hold
PersistedRates == {u \in DbRates : Positive(u)}

\* C31: when updateUsdtRate(r), its save having succeeded, recalculates
\* with FX rates at hand, the cost prices are those of the updated rate:
\* costPrices.USD is calculateUsdPrice(r, usdMargin) and every other price
\* is computed from r.
UpdatePricesWithUpdatedRate ==
    [][(/\ UpdateStepFrom("margins")
        /\ hookEv'.calculated
        /\ DOMAIN CallOf(hookEv'.id).rates # {})
       => \A c \in {CallOf(hookEv'.id)} :
            /\ "USD" \in DOMAIN costPrices'
            /\ \A k \in DOMAIN costPrices' :
                 costPrices'[k] =
                   IF k = "USD"
                   THEN calculateUsdPrice(c.rate, hookEv'.usdMargin)
                   ELSE calculateOtherCurrencyPrice(
                          c.rate, c.rates[k],
                          hookEv'.otherCurrenciesMargin,
                          USDT_TO_USD_FEE)]_vars

\* C34: after saveUsdtNgnRate reported failure updateUsdtRate neither
\* recalculates nor saves anything, and when the call completes
\* usdtNgnRate is a persisted rate, not the rate that was not saved.
FailedSaveReverts ==
    [][/\ ((UpdateStepFrom("save") /\ hookEv'.toast = "error")
             \/ UpdateStepFrom("revert"))
          => /\ ~hookEv'.calculated
             /\ hookEv'.saved = {}
             /\ UNCHANGED <<costPrices, previousCostPrices>>
       /\ (UpdateStepFrom("revert") /\ hookEv'.ended # "no")
          => /\ usdtNgnRate' \in PersistedRates
             /\ usdtNgnRate' # CallOf(hookEv'.id).rate]_vars

\* C35: isLoading is true exactly while a loadAllData or updateUsdtRate
\* call is in progress.
LoadingExactlyWhileInProgress ==
    isLoading <=> Len(hookCalls) > 0

BackgroundRefreshKeepsStateOnFailure ==
    [][ ev'.op \in {"bgSettle", "bgRaceTimeout"}
          => /\ lastApiAttemptTimestamp' = now
             /\ IF ev'.op = "bgSettle" /\ ev'.innerLive
                THEN /\ cache'[OUTER_KEY].present
                     /\ cache'[OUTER_KEY].value = ev'.formatted
                     /\ lastSuccessfulVertoFxRates' = ev'.formatted
                     /\ displayed' = ev'.formatted
                ELSE /\ cache'[OUTER_KEY] = cache[OUTER_KEY]
                     /\ lastSuccessfulVertoFxRates'
                           = lastSuccessfulVertoFxRates
                     /\ displayed' = lastSuccessfulVertoFxRates ]_vars
====
